---- MODULE Spec2Model ----
(***************************************************************************)
(* Model of the Rigol DP832 Ethernet control library (rigol_dp832.py):     *)
(* the DP832 client object, the VISA session it owns, the commands it      *)
(* writes and the replies it parses.                                       *)
(*                                                                         *)
(* Text is modelled as sequences of one-character strings, so that         *)
(* strip(), split(",") and float() are computed character by character.    *)
(* A number is a pair <<m, e>> meaning m * 10^e, kept normalised (m has no *)
(* trailing decimal zero, zero is <<0, 0>>).                               *)
(***************************************************************************)
EXTENDS Integers, Sequences, FiniteSets, TLC

(***************************************************************************)
(* Bounds of the model                                                     *)
(***************************************************************************)
\* number of threads that may share one client object
NCallers == 2

\* the host suffixes a scan sweeps are 1..LastHost (range(1, 255) in the source)
LastHost == 3

\* the size of the sweep's thread pool (ThreadPoolExecutor(max_workers=50) in
\* the source), kept below the number of hosts so that the pool fills
max_workers == 2

\* how many sessions the adapter's connect creates in a run
MaxConnects == 3

(***************************************************************************)
(* Python text primitives                                                  *)
(***************************************************************************)
\* str.strip() with no argument removes these (the ASCII whitespace)
Whitespace == {" ", "\t", "\n", "\r"}

Digits == <<"0", "1", "2", "3", "4", "5", "6", "7", "8", "9">>

IsDigit(c) == \E k \in 1..10 : Digits[k] = c

DigitVal(c) == (CHOOSE k \in 1..10 : Digits[k] = c) - 1

RECURSIVE LStrip(_)
LStrip(s) ==
    IF s = <<>> THEN <<>>
    ELSE IF Head(s) \in Whitespace THEN LStrip(Tail(s)) ELSE s

RECURSIVE RStrip(_)
RStrip(s) ==
    IF s = <<>> THEN <<>>
    ELSE IF s[Len(s)] \in Whitespace THEN RStrip(SubSeq(s, 1, Len(s) - 1)) ELSE s

\* str.strip()
Strip(s) == RStrip(LStrip(s))

\* str.split(","): always at least one field, empty fields are kept
RECURSIVE Split(_)
Split(s) ==
    IF \A k \in 1..Len(s) : s[k] # ","
    THEN <<s>>
    ELSE LET k == CHOOSE j \in 1..Len(s) :
                      s[j] = "," /\ \A h \in 1..(j - 1) : s[h] # ","
         IN  <<SubSeq(s, 1, k - 1)>> \o Split(SubSeq(s, k + 1, Len(s)))

\* ",".join(fields)
RECURSIVE Join(_)
Join(fs) ==
    IF Len(fs) = 0 THEN <<>>
    ELSE IF Len(fs) = 1 THEN fs[1]
    ELSE fs[1] \o <<",">> \o Join(Tail(fs))

\* str.lower() on the letters float() looks at
Lower(c) ==
    CASE c = "I" -> "i" [] c = "N" -> "n" [] c = "F" -> "f" [] c = "A" -> "a"
      [] c = "T" -> "t" [] c = "Y" -> "y" [] c = "E" -> "e"
      [] OTHER -> c

LowerAll(s) == [k \in 1..Len(s) |-> Lower(s[k])]

\* str.upper() on the letters the identification replies tried here contain
Upper(c) ==
    CASE c = "r" -> "R" [] c = "i" -> "I" [] c = "g" -> "G" [] c = "o" -> "O"
      [] c = "l" -> "L" [] c = "d" -> "D" [] c = "p" -> "P" [] c = "a" -> "A"
      [] OTHER -> c

UpperAll(s) == [k \in 1..Len(s) |-> Upper(s[k])]

\* sub in s
Contains(sub, s) ==
    \E k \in 0..(Len(s) - Len(sub)) : SubSeq(s, k + 1, k + Len(sub)) = sub

(***************************************************************************)
(* Numbers: <<m, e>> is m * 10^e                                           *)
(***************************************************************************)
RECURSIVE Normalise(_, _)
Normalise(m, e) ==
    IF m = 0 THEN <<0, 0>>
    ELSE IF m % 10 = 0 THEN Normalise(m \div 10, e + 1)
    ELSE <<m, e>>

RECURSIVE Pow10(_)
Pow10(k) == IF k <= 0 THEN 1 ELSE 10 * Pow10(k - 1)

\* a run of digits in which single underscores may separate digits
IsDigitRun(s) ==
    /\ Len(s) > 0
    /\ IsDigit(s[1]) /\ IsDigit(s[Len(s)])
    /\ \A k \in 1..Len(s) : IsDigit(s[k]) \/ s[k] = "_"
    /\ \A k \in 1..(Len(s) - 1) : ~(s[k] = "_" /\ s[k + 1] = "_")

RECURSIVE DigitsValue(_, _)
DigitsValue(s, acc) ==
    IF s = <<>> THEN acc
    ELSE IF Head(s) = "_" THEN DigitsValue(Tail(s), acc)
    ELSE DigitsValue(Tail(s), 10 * acc + DigitVal(Head(s)))

RECURSIVE CountDigits(_)
CountDigits(s) ==
    IF s = <<>> THEN 0
    ELSE (IF IsDigit(Head(s)) THEN 1 ELSE 0) + CountDigits(Tail(s))

\* position of the first occurrence of one of cs in s, or 0
FirstOf(s, cs) ==
    IF \A k \in 1..Len(s) : s[k] \notin cs THEN 0
    ELSE CHOOSE j \in 1..Len(s) : s[j] \in cs /\ \A h \in 1..(j - 1) : s[h] \notin cs

SignOf(s) == IF s # <<>> /\ Head(s) = "-" THEN -1 ELSE 1

DropSign(s) == IF s # <<>> /\ Head(s) \in {"+", "-"} THEN Tail(s) ELSE s

FloatError == [ok |-> FALSE, special |-> "", num |-> <<0, 0>>]

\* the unsigned decimal literal digits[.digits][e[sign]digits] or .digits[...]
ParseDecimal(sign, body) ==
    LET ePos  == FirstOf(body, {"e", "E"})
        mant  == IF ePos = 0 THEN body ELSE SubSeq(body, 1, ePos - 1)
        expo  == IF ePos = 0 THEN <<>> ELSE SubSeq(body, ePos + 1, Len(body))
        dot   == FirstOf(mant, {"."})
        ipart == IF dot = 0 THEN mant ELSE SubSeq(mant, 1, dot - 1)
        fpart == IF dot = 0 THEN <<>> ELSE SubSeq(mant, dot + 1, Len(mant))
        mantOk == /\ ipart = <<>> \/ IsDigitRun(ipart)
                  /\ fpart = <<>> \/ IsDigitRun(fpart)
                  /\ ipart # <<>> \/ fpart # <<>>
        expOk == ePos = 0 \/ IsDigitRun(DropSign(expo))
    IN  IF ~(mantOk /\ expOk) THEN FloatError
        ELSE LET m == DigitsValue(ipart \o fpart, 0)
                 x == IF ePos = 0 THEN 0
                      ELSE SignOf(expo) * DigitsValue(DropSign(expo), 0)
             IN  [ok |-> TRUE, special |-> "",
                  num |-> Normalise(sign * m, x - CountDigits(fpart))]

\* a float() wrapped to give 0.0 for text that is no number
FloatOrZero(s) ==
    LET p == ParseDecimal(SignOf(Strip(s)), DropSign(Strip(s)))
    IN  IF p.ok THEN p ELSE [ok |-> TRUE, special |-> "", num |-> <<0, 0>>]

\* float(s): surrounding whitespace is ignored, then an optional sign and a
\* decimal literal, or inf / infinity / nan in any case
ParseFloat(s) ==
    LET t    == Strip(s)
        body == DropSign(t)
        low  == LowerAll(body)
    IN  IF low \in {<<"i", "n", "f">>, <<"n", "a", "n">>,
                    <<"i", "n", "f", "i", "n", "i", "t", "y">>}
        THEN [ok |-> TRUE, special |-> IF low[1] = "n" THEN "nan" ELSE "inf",
              num |-> <<SignOf(t), 0>>]
        ELSE ParseDecimal(SignOf(t), body)

RECURSIVE NatToChars(_)
NatToChars(n) ==
    IF n < 10 THEN <<Digits[n + 1]>>
    ELSE NatToChars(n \div 10) \o <<Digits[(n % 10) + 1]>>

RECURSIVE ZeroPad(_, _)
ZeroPad(s, width) == IF Len(s) >= width THEN s ELSE ZeroPad(<<"0">> \o s, width)

\* str(x) of a Python number, as an f-string field formats it: an int prints its
\* digits, a float prints the shortest decimal that reads back as the same
\* float and always has a fractional part. x is [py, m, e] with e <= 0.
FormatNumber(x) ==
    LET neg   == x.m < 0
        a     == IF neg THEN -x.m ELSE x.m
        scale == Pow10(-x.e)
        ip    == NatToChars(a \div scale)
        fp    == IF x.e = 0 THEN <<"0">> ELSE ZeroPad(NatToChars(a % scale), -x.e)
        body  == IF x.py = "int" THEN ip ELSE ip \o <<".">> \o fp
    IN  IF neg THEN <<"-">> \o body ELSE body

\* the numeric value of an input, as Python compares numbers (5 == 5.0)
ValueOf(x) == Normalise(x.m, x.e)

(***************************************************************************)
(* The operations of the DP832 client.  Each is one transport call:        *)
(* kind "query" is inst.query(cmd) (write, then read one reply line),      *)
(* kind "write" is inst.write(cmd).  scope "channel" operations take a     *)
(* channel and call _validate_channel first.  parse names how the reply    *)
(* becomes the result.                                                     *)
(***************************************************************************)
id ==
    [name |-> "id", scope |-> "device", kind |-> "query", verb |-> "*IDN?",
     parse |-> "fields4", token |-> <<>>, arg |-> "none"]

get_output_state ==
    [name |-> "get_output_state", scope |-> "channel", kind |-> "query",
     verb |-> ":OUTP:STAT?", parse |-> "equals", token |-> <<"O", "N">>, arg |-> "none"]

set_output_state ==
    [name |-> "set_output_state", scope |-> "channel", kind |-> "write",
     verb |-> ":OUTP:STAT", parse |-> "none", token |-> <<>>, arg |-> "onoff"]

get_channel_settings ==
    [name |-> "get_channel_settings", scope |-> "channel", kind |-> "query",
     verb |-> ":APPL?", parse |-> "last2", token |-> <<>>, arg |-> "none"]

set_channel_settings ==
    [name |-> "set_channel_settings", scope |-> "channel", kind |-> "write",
     verb |-> ":APPL", parse |-> "none", token |-> <<>>, arg |-> "vi"]

measure_voltage ==
    [name |-> "measure_voltage", scope |-> "channel", kind |-> "query",
     verb |-> ":MEAS?", parse |-> "float", token |-> <<>>, arg |-> "none"]

measure_current ==
    [name |-> "measure_current", scope |-> "channel", kind |-> "query",
     verb |-> ":MEAS:CURR?", parse |-> "float", token |-> <<>>, arg |-> "none"]

measure_power ==
    [name |-> "measure_power", scope |-> "channel", kind |-> "query",
     verb |-> ":MEAS:ALL?", parse |-> "third", token |-> <<>>, arg |-> "none"]

measure_all ==
    [name |-> "measure_all", scope |-> "channel", kind |-> "query",
     verb |-> ":MEAS:ALL?", parse |-> "first3", token |-> <<>>, arg |-> "none"]

get_output_mode ==
    [name |-> "get_output_mode", scope |-> "channel", kind |-> "query",
     verb |-> ":OUTP:MODE?", parse |-> "raw", token |-> <<>>, arg |-> "none"]

get_ocp_enabled ==
    [name |-> "get_ocp_enabled", scope |-> "channel", kind |-> "query",
     verb |-> ":OUTP:OCP?", parse |-> "equals", token |-> <<"O", "N">>, arg |-> "none"]

set_ocp_enabled ==
    [name |-> "set_ocp_enabled", scope |-> "channel", kind |-> "write",
     verb |-> ":OUTP:OCP", parse |-> "none", token |-> <<>>, arg |-> "onoff"]

get_ocp_value ==
    [name |-> "get_ocp_value", scope |-> "channel", kind |-> "query",
     verb |-> ":OUTP:OCP:VAL?", parse |-> "float", token |-> <<>>, arg |-> "none"]

set_ocp_value ==
    [name |-> "set_ocp_value", scope |-> "channel", kind |-> "write",
     verb |-> ":OUTP:OCP:VAL", parse |-> "none", token |-> <<>>, arg |-> "i"]

get_ovp_enabled ==
    [name |-> "get_ovp_enabled", scope |-> "channel", kind |-> "query",
     verb |-> ":OUTP:OVP?", parse |-> "equals", token |-> <<"O", "N">>, arg |-> "none"]

set_ovp_enabled ==
    [name |-> "set_ovp_enabled", scope |-> "channel", kind |-> "write",
     verb |-> ":OUTP:OVP", parse |-> "none", token |-> <<>>, arg |-> "onoff"]

get_ovp_value ==
    [name |-> "get_ovp_value", scope |-> "channel", kind |-> "query",
     verb |-> ":OUTP:OVP:VAL?", parse |-> "float", token |-> <<>>, arg |-> "none"]

set_ovp_value ==
    [name |-> "set_ovp_value", scope |-> "channel", kind |-> "write",
     verb |-> ":OUTP:OVP:VAL", parse |-> "none", token |-> <<>>, arg |-> "v"]

get_ocp_alarm ==
    [name |-> "get_ocp_alarm", scope |-> "channel", kind |-> "query",
     verb |-> ":OUTP:OCP:ALAR?", parse |-> "equals", token |-> <<"Y", "E", "S">>,
     arg |-> "none"]

clear_ocp_alarm ==
    [name |-> "clear_ocp_alarm", scope |-> "channel", kind |-> "write",
     verb |-> ":OUTP:OCP:CLEAR", parse |-> "none", token |-> <<>>, arg |-> "none"]

get_ovp_alarm ==
    [name |-> "get_ovp_alarm", scope |-> "channel", kind |-> "query",
     verb |-> ":OUTP:OVP:ALAR?", parse |-> "equals", token |-> <<"O", "N">>, arg |-> "none"]

clear_ovp_alarm ==
    [name |-> "clear_ovp_alarm", scope |-> "channel", kind |-> "write",
     verb |-> ":OUTP:OVP:CLEAR", parse |-> "none", token |-> <<>>, arg |-> "none"]

ChannelOps ==
    {get_output_state, set_output_state, get_channel_settings, set_channel_settings,
     measure_voltage, measure_current, measure_power, measure_all, get_output_mode,
     get_ocp_enabled, set_ocp_enabled, get_ocp_value, set_ocp_value,
     get_ovp_enabled, set_ovp_enabled, get_ovp_value, set_ovp_value,
     get_ocp_alarm, clear_ocp_alarm, get_ovp_alarm, clear_ovp_alarm}

Ops == {id} \cup ChannelOps

\* the operations whose result holds a float parsed from the reply
FloatOps ==
    {get_channel_settings, measure_voltage, measure_current, measure_power,
     measure_all, get_ocp_value, get_ovp_value}

\* the channel list of _validate_channel
ValidChannels == {1, 2, 3}

\* a range check that forgets the lower end
ValidateUpTo3(channel) == channel <= 3

\* _validate_channel(channel): TRUE when it returns, FALSE when it raises ValueError
_validate_channel(channel) == channel \in ValidChannels

(***************************************************************************)
(* Reply parsing.  A parse yields [err, at, val]: err is the Python        *)
(* exception class raised ("none" when the operation returns), at is the   *)
(* expression that raised it, val is the returned value.                   *)
(***************************************************************************)
NoVal == "None"

Returned(v) == [err |-> "none", at |-> "", val |-> v]

Raised(e, where) == [err |-> e, at |-> where, val |-> NoVal]

\* a Python float that float() returned
AsFloat(p) == [special |-> p.special, num |-> p.num]

\* id(): id_str = reply.strip().split(","), then id_str[0] .. id_str[3]
ParseFields4(reply) ==
    LET id_str == Split(Strip(reply))
    IN  IF Len(id_str) < 4 THEN Raised("IndexError", "subscript")
        ELSE Returned([manufacturer |-> id_str[1], model |-> id_str[2],
                       serial_number |-> id_str[3], version |-> id_str[4]])

\* a comparison that ignores the case of the reply
EqualsNoCase(token, reply) ==
    Returned(Strip(reply) = token \/ Strip(reply) = <<"o", "n">>)

\* state == "ON" (or alarm == "YES"): equality of the stripped reply with the token
ParseEquals(token, reply) == Returned(Strip(reply) = token)

\* taking the first two fields, settings[0] and settings[1], instead
ParseFirst2(reply) ==
    LET settings == Split(Strip(reply))
    IN  IF Len(settings) < 2 THEN Raised("IndexError", "subscript")
        ELSE LET v == ParseFloat(settings[1])
                 i == ParseFloat(settings[2])
             IN  IF ~v.ok \/ ~i.ok THEN Raised("ValueError", "float")
                 ELSE Returned([voltage |-> AsFloat(v), current |-> AsFloat(i)])

\* get_channel_settings: float(settings[-2]) then float(settings[-1])
ParseLast2(reply) ==
    LET settings == Split(Strip(reply))
        n == Len(settings)
    IN  IF n < 2 THEN Raised("IndexError", "subscript")
        ELSE LET v == ParseFloat(settings[n - 1])
                 i == ParseFloat(settings[n])
             IN  IF ~v.ok \/ ~i.ok THEN Raised("ValueError", "float")
                 ELSE Returned([voltage |-> AsFloat(v), current |-> AsFloat(i)])

\* float(reply.strip())
ParseSingleFloat(reply) ==
    LET p == ParseFloat(Strip(reply))
    IN  IF p.ok THEN Returned(AsFloat(p)) ELSE Raised("ValueError", "float")

\* taking measurements[1], the current, for the power
ParseSecond(reply) ==
    LET measurements == Split(Strip(reply))
    IN  IF Len(measurements) < 2 THEN Raised("IndexError", "subscript")
        ELSE LET p == ParseFloat(measurements[2])
             IN  IF p.ok THEN Returned(AsFloat(p)) ELSE Raised("ValueError", "float")

\* measure_power: float(measurements[2])
ParseThird(reply) ==
    LET measurements == Split(Strip(reply))
    IN  IF Len(measurements) < 3 THEN Raised("IndexError", "subscript")
        ELSE LET p == ParseFloat(measurements[3])
             IN  IF p.ok THEN Returned(AsFloat(p)) ELSE Raised("ValueError", "float")

\* measure_all: float(measurements[0]), float(measurements[1]),
\* float(measurements[2]), evaluated in that order
ParseFirst3(reply) ==
    LET measurements == Split(Strip(reply))
        n == Len(measurements)
        v == ParseFloat(measurements[1])
    IN  IF ~v.ok THEN Raised("ValueError", "float")
        ELSE IF n < 2 THEN Raised("IndexError", "subscript")
        ELSE LET i == ParseFloat(measurements[2])
             IN  IF ~i.ok THEN Raised("ValueError", "float")
                 ELSE IF n < 3 THEN Raised("IndexError", "subscript")
                 ELSE LET p == ParseFloat(measurements[3])
                      IN  IF ~p.ok THEN Raised("ValueError", "float")
                          ELSE Returned([voltage |-> AsFloat(v),
                                         current |-> AsFloat(i),
                                         power |-> AsFloat(p)])

\* get_output_mode: the stripped reply itself
ParseRaw(reply) == Returned(Strip(reply))

ParseReply(o, reply) ==
    CASE o.parse = "fields4" -> ParseFields4(reply)
      [] o.parse = "equals"  -> ParseEquals(o.token, reply)
      [] o.parse = "last2"   -> ParseLast2(reply)
      [] o.parse = "float"   -> ParseSingleFloat(reply)
      [] o.parse = "third"   -> ParseThird(reply)
      [] o.parse = "first3"  -> ParseFirst3(reply)
      [] o.parse = "raw"     -> ParseRaw(reply)

(***************************************************************************)
(* Command formatting                                                      *)
(***************************************************************************)
\* "ON" if state else "OFF"
OnOff(b) == IF b THEN <<"O", "N">> ELSE <<"O", "F", "F">>

\* the comma-separated fields that follow CH<n> in the command text
FormatArgs(o, a) ==
    CASE o.arg = "onoff" -> <<OnOff(a.on)>>
      [] o.arg = "vi"    -> <<FormatNumber(a.v), FormatNumber(a.i)>>
      [] o.arg = "v"     -> <<FormatNumber(a.v)>>
      [] o.arg = "i"     -> <<FormatNumber(a.i)>>
      [] OTHER           -> <<>>

\* the command text with the channel written as a literal: f"{verb} CH1,{args}"
CommandFixedChannel(o, ch, a) ==
    [verb |-> o.verb, ch |-> 1, args |-> FormatArgs(o, a)]

\* the command the operation hands to the transport: f"{verb} CH{channel},{args}"
Command(o, ch, a) == [verb |-> o.verb, ch |-> ch, args |-> FormatArgs(o, a)]

(***************************************************************************)
(* The instrument behind the session: for each channel the text of the     *)
(* voltage and current last programmed with :APPL and the output state     *)
(* last set with :OUTP:STAT.                                               *)
(***************************************************************************)
InstrumentInit ==
    [appl |-> [ch \in ValidChannels |-> <<<<"0", ".", "0">>, <<"0", ".", "0">>>>],
     stat |-> [ch \in ValidChannels |-> <<"O", "F", "F">>]]

\* a command that names no channel of the instrument changes nothing
InstrumentApply(st, cmd) ==
    CASE cmd.ch \notin ValidChannels -> st
      [] cmd.verb = ":APPL"          -> [st EXCEPT !.appl[cmd.ch] = cmd.args]
      [] cmd.verb = ":OUTP:STAT"     -> [st EXCEPT !.stat[cmd.ch] = cmd.args[1]]
      [] OTHER                       -> st

\* the replies of an instrument that reports what was last programmed
InstrumentReply(st, cmd) ==
    CASE cmd.ch \notin ValidChannels -> {}
      [] cmd.verb = ":APPL?" ->
             {<<"C", "H">> \o NatToChars(cmd.ch) \o <<":", "3", "0", "V", "/", "3", "A", ",">>
                 \o Join(st.appl[cmd.ch])}
      [] cmd.verb = ":OUTP:STAT?" -> {st.stat[cmd.ch]}
      [] OTHER -> {}

(***************************************************************************)
(* Inputs                                                                  *)
(***************************************************************************)
\* channel arguments tried: the valid ones and one on each side
ChannelInputs == {0, 1, 2, 3, 4}

\* 5.0 V / 1.0 A as floats, 12 V as an int with 0.5 A, 5.002 V / 0.05 A
ArgInputs ==
    {[on |-> TRUE,  v |-> [py |-> "float", m |-> 5, e |-> 0],
                    i |-> [py |-> "float", m |-> 1, e |-> 0]],
     [on |-> FALSE, v |-> [py |-> "int", m |-> 12, e |-> 0],
                    i |-> [py |-> "float", m |-> 5, e |-> -1]]}

NoArg == [on |-> FALSE, v |-> [py |-> "int", m |-> 0, e |-> 0],
          i |-> [py |-> "int", m |-> 0, e |-> 0]]

\* 'ON'
R_ON == <<"O", "N">>

\* 'OFF'
R_OFF == <<"O", "F", "F">>

\* 'ON\r'
R_ON_CR == <<"O", "N", "\r">>

\* ' ON'
R_SP_ON == <<" ", "O", "N">>

\* 'on'
R_on == <<"o", "n">>

\* 'YES'
R_YES == <<"Y", "E", "S">>

\* '1'
R_1 == <<"1">>

\* 'CV'
R_CV == <<"C", "V">>

\* '5.002'
R_5002 == <<"5", ".", "0", "0", "2">>

\* 'abc'
R_abc == <<"a", "b", "c">>

\* ''
R_empty == <<>>

\* 'nan'
R_nan == <<"n", "a", "n">>

\* '1e1'
R_1e1 == <<"1", "e", "1">>

\* '5.002,1.001,5.007'
R_all == <<"5", ".", "0", "0", "2", ",", "1", ".", "0", "0", "1", ",", "5", ".", "0", "0", "7">>

\* '12.00,0.50,6.0'
R_all_b == <<"1", "2", ".", "0", "0", ",", "0", ".", "5", "0", ",", "6", ".", "0">>

\* '5.002,1.001'
R_all2 == <<"5", ".", "0", "0", "2", ",", "1", ".", "0", "0", "1">>

\* '5.002,1.001,5.007,9.9'
R_all4 == <<"5", ".", "0", "0", "2", ",", "1", ".", "0", "0", "1", ",", "5", ".", "0", "0", "7", ",", "9", ".", "9">>

\* '5.002,abc,5.007'
R_all_bad2 == <<"5", ".", "0", "0", "2", ",", "a", "b", "c", ",", "5", ".", "0", "0", "7">>

\* '5.002,1.001,abc'
R_all_bad3 == <<"5", ".", "0", "0", "2", ",", "1", ".", "0", "0", "1", ",", "a", "b", "c">>

\* 'RIGOL,DP832,SN1,V1'
R_idn == <<"R", "I", "G", "O", "L", ",", "D", "P", "8", "3", "2", ",", "S", "N", "1", ",", "V", "1">>

\* 'RIGOL,DP832,SN1'
R_idn3 == <<"R", "I", "G", "O", "L", ",", "D", "P", "8", "3", "2", ",", "S", "N", "1">>

\* 'RIGOL,DP832,SN1,V1,X'
R_idn5 == <<"R", "I", "G", "O", "L", ",", "D", "P", "8", "3", "2", ",", "S", "N", "1", ",", "V", "1", ",", "X">>

\* 'CH1:30V/3A,abc,1.0'
R_appl_bad == <<"C", "H", "1", ":", "3", "0", "V", "/", "3", "A", ",", "a", "b", "c", ",", "1", ".", "0">>

\* the reply lines a mock transport is made to return, by the kind of operation
\* that reads them: well-formed ones, and malformed ones of each sort
RepliesFor(o) ==
    CASE o.parse = "equals"  -> {R_ON, R_OFF, R_ON_CR, R_SP_ON, R_on, R_YES, R_1, R_empty}
      [] o.parse = "float"   -> {R_5002, R_1e1, R_nan, R_abc, R_empty, R_ON, R_all}
      [] o.parse = "first3"  -> {R_all, R_all_b, R_all2, R_all4, R_all_bad2, R_all_bad3, R_5002,
                                 R_abc, R_empty}
      [] o.parse = "third"   -> {R_all, R_all_b, R_all2, R_all4, R_all_bad2, R_all_bad3, R_5002,
                                 R_abc, R_empty}
      [] o.parse = "last2"   -> {R_appl_bad, R_all, R_all2, R_5002, R_abc}
      [] o.parse = "fields4" -> {R_idn, R_idn3, R_idn5, R_empty}
      [] o.parse = "raw"     -> {R_CV, R_ON_CR}
      [] OTHER               -> {}

(***************************************************************************)
(* Discovery: hosts, pings and identification                              *)
(***************************************************************************)
\* 'RIGOL,DP832 ' followed by a carriage return
R_idn_cr == <<"R", "I", "G", "O", "L", ",", "D", "P", "8", "3", "2", " ", "\r">>

\* 'Rigol,dp832a'
R_idn_lower == <<"R", "i", "g", "o", "l", ",", "d", "p", "8", "3", "2", "a">>

\* 'RIGOL,DP821A'
R_idn_821 == <<"R", "I", "G", "O", "L", ",", "D", "P", "8", "2", "1", "A">>

\* 'rigol,dp712'
R_idn_712 == <<"r", "i", "g", "o", "l", ",", "d", "p", "7", "1", "2">>

\* 'RIGOL,DS1054Z': the vendor, another instrument
R_idn_scope == <<"R", "I", "G", "O", "L", ",", "D", "S", "1", "0", "5", "4", "Z">>

\* 'ACME,DP832': the model token, another vendor
R_idn_acme == <<"A", "C", "M", "E", ",", "D", "P", "8", "3", "2">>

\* the host suffixes of the subnet swept: for i in range(1, 255)
Hosts == 1..LastHost

\* an address handed to test_ip that is no address: a last octet beyond the
\* broadcast suffix
Malformed == LastHost + 2

Wellformed(addr) == addr \in 0..(LastHost + 1)

\* a ping_ip task: "new", "queued" (submitted), "running" (a worker is in
\* ping_ip), "finished" (its future is done), "yielded" (as_completed gave the
\* future to the loop); how the ping goes; what the future holds
NoPing == [st |-> "new", how |-> "", val |-> FALSE, exc |-> FALSE]

NoScan == [entry |-> "none", addr |-> 0, visa |-> TRUE]

NoScanResult == [kind |-> "none", val |-> <<>>, err |-> "none"]

\* subprocess.run(["ping", "-c", "1", "-W", "1", ip], timeout=2) may: exit 0
\* ("reply"), exit non-zero ("noreply"), not exit ("hung"), or fail to start
\* ("oserror")
PingBehaviours == {"reply", "noreply", "hung", "oserror"}

\* ping_ip that returns True whenever ping exited, whatever its return code
PingAnyExit(how) ==
    [ends |-> TRUE, exc |-> FALSE, val |-> how \in {"reply", "noreply"}]

\* ping_ip without its except clause: TimeoutExpired and OSError leave it
PingUncaught(how) ==
    [ends |-> TRUE, exc |-> how \in {"hung", "oserror"}, val |-> how = "reply"]

\* ping_ip without timeout=2: subprocess.run waits for a ping that never exits
PingNoTimeout(how) ==
    [ends |-> how # "hung", exc |-> FALSE, val |-> how = "reply"]

\* ping_ip: returncode == 0, and False when subprocess.run raised, which it
\* does after 2 s for a ping that has not exited (it kills the ping first)
ping_ip(how) ==
    [ends |-> TRUE, exc |-> FALSE, val |-> how = "reply"]

T_RIGOL == <<"R", "I", "G", "O", "L">>

T_DP832 == <<"D", "P", "8", "3", "2">>

T_DP821 == <<"D", "P", "8", "2", "1">>

T_DP712 == <<"D", "P", "7", "1", "2">>

\* "RIGOL" in id_response.upper(), whatever the model
IsRigol(id_response) == Contains(T_RIGOL, UpperAll(id_response))

\* "RIGOL" in id_response.upper() and "DP832" in id_response.upper()
IsDP832(id_response) ==
    /\ Contains(T_RIGOL, UpperAll(id_response))
    /\ Contains(T_DP832, UpperAll(id_response))

\* "RIGOL" in id_upper and any(model in id_upper for model in ["DP832",
\* "DP821", "DP712"])
IsDPSeries(id_response) ==
    /\ Contains(T_RIGOL, UpperAll(id_response))
    /\ \E model \in {T_DP832, T_DP821, T_DP712} :
           Contains(model, UpperAll(id_response))

\* the entry points: of discovery.py, and the scripts find_dp832.py and
\* test_ip.py of the package directory, which carry their own probe
ScanEntries == {"find_dp832_devices", "find_first_dp832", "find_dp832"}

TestEntries == {"test_ip", "test_ip.py"}

ModuleOf(entry) ==
    CASE entry = "find_dp832" -> "find_dp832.py"
      [] entry = "test_ip.py" -> "test_ip.py"
      [] OTHER                -> "discovery.py"

\* find_dp832.py's probe with the model list of test_ip.py
MatchesSeriesInScripts(entry, id_response) ==
    IF ModuleOf(entry) \in {"test_ip.py", "find_dp832.py"} THEN IsDPSeries(id_response)
    ELSE IsDP832(id_response)

\* the test the probe of the entry point's module applies to the reply
Matches(entry, id_response) ==
    IF ModuleOf(entry) = "test_ip.py" THEN IsDPSeries(id_response)
    ELSE IsDP832(id_response)

\* a probe without its except clause: no match is an exception
RaiseNotFound(entry) ==
    [NoScanResult EXCEPT !.kind = "raise", !.err = "VisaIOError"]

\* what the probe of the entry point's module returns for no match
NotFound(entry) ==
    [NoScanResult EXCEPT
        !.kind = IF ModuleOf(entry) = "find_dp832.py" THEN "False" ELSE "None"]

\* test_dp832_connection / test_ip of test_ip.py, given what the probe met:
\* p.out is "import_error", "rm_error", "open_error", "timeout", "close_error"
\* (the reply came and inst.close() or rm.close() raised) or "reply"
test_dp832_connection(entry, p) ==
    IF p.out = "reply" /\ Matches(entry, p.reply)
    THEN [NoScanResult EXCEPT !.kind = "text", !.val = <<Strip(p.reply)>>]
    ELSE NotFound(entry)

\* if device_id:
Truthy(r) == r.kind = "text" /\ r.val[1] # <<>>

NoneResult == [NoScanResult EXCEPT !.kind = "None"]

\* devices[-1] if devices else None
TakeLast(devices) ==
    IF devices # <<>>
    THEN [NoScanResult EXCEPT !.kind = "pair", !.val = <<devices[Len(devices)]>>]
    ELSE NoneResult

\* find_first_dp832: devices[0] if devices else None
find_first_dp832(devices) ==
    IF devices # <<>>
    THEN [NoScanResult EXCEPT !.kind = "pair", !.val = <<devices[1]>>]
    ELSE NoneResult

\* what the entry point returns when find_dp832_devices has the list devices
Emit(entry, devices) ==
    CASE entry = "find_first_dp832" -> find_first_dp832(devices)
      [] entry = "find_dp832"       -> NoneResult
      [] OTHER -> [NoScanResult EXCEPT !.kind = "list", !.val = devices]

(***************************************************************************)
(* State                                                                   *)
(***************************************************************************)
VARIABLES
    life,        \* "new", "plain" (ps = DP832(..)), "block" (inside with DP832(..)
                 \* as ps), "left" (the with block was left), "failed" (__init__ raised)
    leftBy,      \* how the with block was left: "", "normal", "error"
    attrs,       \* which of self.rm, self.inst __init__ has assigned
    rmOpen,      \* the VISA resource manager self.rm is open
    instOpen,    \* the session self.inst is open
    exc,         \* an exception raised inside the with block is propagating
    closeHist,   \* "never", "closed" (close() ran once), "reclosed" (ran again)
    closeErr,    \* the exception class the last close() raised, or "none"
    pc,          \* per caller: "idle", or "reading" inside inst.query
    cur,         \* per caller: the operation and channel of the query it is in
    inflight,    \* requests written to the session whose reply is still awaited
    instr,       \* the instrument's programmed state
    programmed,  \* history: per channel the arguments :APPL last programmed
    res,         \* the outcome of the operation that returned or raised last,
                 \* NoRes while a query is being made
    fan,         \* the get_all_* call in progress or last made: the channels
                 \* still to query, the dictionary built so far, what it returned
    call,        \* the discovery entry point called and its arguments
    spc,         \* where the calling thread of the discovery call is
    ping,        \* per host suffix: the future of its ping_ip task
    snapshot,    \* as_completed: the futures already finished when it was entered
    late,        \* as_completed: the futures that finished later, in that order
    responsive_ips,  \* the hosts whose ping answered, as collected
    probe_i,     \* how many candidates the identification loop is done with
    session,     \* the hosts whose identification query is in flight
    probes,      \* history: each test_dp832_connection call and what it met
    handles,     \* the resource managers and sessions probes opened and
                 \* have not closed, each with the host it was opened for
    dp832_devices,   \* the (ip, device_id) pairs found
    sres,        \* what the discovery call returned or raised
    DEFAULT_IP,  \* the address configured in the environment, or None
    current_ps,  \* the adapter's current session: None, or which of sess
    sess,        \* every session connect created: "open" or "closed"
    tres         \* what the adapter tool called last returned or raised

\* the client object and its instrument
clientVars == <<life, leftBy, attrs, rmOpen, instOpen, exc, closeHist, closeErr,
                pc, cur, inflight, instr, programmed, res, fan>>

\* a discovery call
scanVars == <<call, spc, ping, snapshot, late, responsive_ips, probe_i, session,
              probes, handles, dp832_devices, sres>>

\* the adapter's process-wide state
adapterVars == <<DEFAULT_IP, current_ps, sess, tres>>

vars == <<clientVars, scanVars, adapterVars>>

\* Python's None, for the handle and for an address
None == 0

\* no adapter tool was called yet
NoToolResult ==
    [tool |-> "none", kind |-> "none", status |-> "", err |-> "none",
     val |-> "", sent |-> 0, runs |-> 0, opened |-> 0, had |-> None,
     arg |-> None, found |-> ""]

Callers == 1..NCallers

\* the thread of a program that uses its client from one thread
Main == CHOOSE c \in Callers : \A d \in Callers : c <= d

NoCall == [op |-> "none", ch |-> 0]

NoRes ==
    [by |-> 0, op |-> "none", ch |-> 0, a |-> NoArg, calls |-> 0, io |-> "none",
     err |-> "none", at |-> "", val |-> NoVal, reply |-> <<>>, replied |-> FALSE]

\* no get_all_* call was made yet
NoFan ==
    [op |-> "none", st |-> "none", rest |-> <<>>, acc |-> <<>>, queried |-> <<>>,
     err |-> "none", val |-> NoVal]

InitClient ==
    /\ life = "new"
    /\ leftBy = ""
    /\ attrs = {}
    /\ rmOpen = FALSE
    /\ instOpen = FALSE
    /\ exc = FALSE
    /\ closeHist = "never"
    /\ closeErr = "none"
    /\ pc = [c \in Callers |-> "idle"]
    /\ cur = [c \in Callers |-> NoCall]
    /\ inflight = 0
    /\ instr = InstrumentInit
    /\ programmed = [ch \in ValidChannels |-> NoArg]
    /\ res = NoRes
    /\ fan = NoFan
    /\ call = NoScan
    /\ spc = "idle"
    /\ ping = [h \in Hosts |-> NoPing]
    /\ snapshot = {}
    /\ late = <<>>
    /\ responsive_ips = <<>>
    /\ probe_i = 0
    /\ session = {}
    /\ probes = <<>>
    /\ handles = {}
    /\ dp832_devices = <<>>
    /\ sres = NoScanResult
    /\ current_ps = None
    /\ sess = <<>>
    /\ tres = NoToolResult

\* a process started without RIGOL_DP832_IP in its environment
Init == InitClient /\ DEFAULT_IP = None

\* a process started with or without RIGOL_DP832_IP
EnvInputs == {None, 1}

InitEnv == InitClient /\ DEFAULT_IP \in EnvInputs

(***************************************************************************)
(* Construction, close and the with block                                  *)
(***************************************************************************)
\* __init__: self.rm = pyvisa.ResourceManager(), then self.inst =
\* self.rm.open_resource(..).  outcome says which of the two, if any, raises;
\* mode is how the caller holds the object ("plain" or "block").
Construct(mode, outcome) ==
    /\ life = "new"
    /\ attrs' = CASE outcome = "rm_error"   -> {}
                  [] outcome = "open_error" -> {"rm"}
                  [] OTHER                  -> {"rm", "inst"}
    /\ rmOpen' = (outcome # "rm_error")
    /\ instOpen' = (outcome = "ok")
    /\ life' = IF outcome = "ok" THEN mode ELSE "failed"
    /\ UNCHANGED <<leftBy, exc, closeHist, closeErr, pc, cur, inflight, instr,
                   programmed, res, fan, scanVars, adapterVars>>

\* close() without the hasattr tests: self.inst.close() raises AttributeError
\* when __init__ never assigned self.inst
CloseUnguarded ==
    IF "inst" \notin attrs
    THEN [inst |-> instOpen, rm |-> rmOpen, err |-> "AttributeError"]
    ELSE [inst |-> FALSE, rm |-> FALSE, err |-> "none"]

\* an __exit__ that closes only when the block ended without an exception
ExitOnlyWhenClean(exc_type) ==
    IF exc_type
    THEN [inst |-> instOpen, rm |-> rmOpen, err |-> "none"]
    ELSE [inst |-> FALSE, rm |-> FALSE, err |-> "none"]

\* close(): what it leaves of the two handles, and the exception it raises.
\* Closing a pyvisa session or resource manager that is already closed does
\* nothing.
close ==
    [inst |-> IF "inst" \in attrs THEN FALSE ELSE instOpen,
     rm   |-> IF "rm" \in attrs THEN FALSE ELSE rmOpen,
     err  |-> "none"]

\* __exit__(exc_type, ..): self.close(); returns None, so the exception goes on
__exit__(exc_type) == close

\* an explicit ps.close() by caller c, also on an object whose __init__ raised
Close(c) ==
    /\ life # "new"
    /\ pc[c] = "idle"
    /\ ~exc
    /\ instOpen' = close.inst
    /\ rmOpen' = close.rm
    /\ closeErr' = close.err
    /\ closeHist' = IF closeHist = "never" THEN "closed" ELSE "reclosed"
    /\ UNCHANGED <<life, leftBy, attrs, exc, pc, cur, inflight, instr, programmed,
                   res, fan, scanVars, adapterVars>>

\* the with block is left: at its end, or by the exception an operation raised
Exit(c) ==
    /\ life = "block"
    /\ pc[c] = "idle"
    /\ instOpen' = __exit__(exc).inst
    /\ rmOpen' = __exit__(exc).rm
    /\ closeErr' = __exit__(exc).err
    /\ closeHist' = IF closeHist = "never" THEN "closed" ELSE "reclosed"
    /\ life' = "left"
    /\ leftBy' = IF exc THEN "error" ELSE "normal"
    /\ exc' = FALSE
    /\ UNCHANGED <<attrs, pc, cur, inflight, instr, programmed, res, fan, scanVars, adapterVars>>

(***************************************************************************)
(* Operations                                                              *)
(***************************************************************************)
\* caller c can invoke a method: the object exists and nothing is propagating
Usable(c) ==
    /\ life \in {"plain", "block", "left"}
    /\ pc[c] = "idle"
    /\ ~exc

\* the outcome of operation o called by c: calls counts the inst.query /
\* inst.write calls it made, io is what the transport did ("none" when it was
\* not called, "ok", "fail" for a failed write, "timeout" for a read that timed
\* out, "closed" for a closed session)
Outcome(c, o, ch, a, calls, io, out) ==
    [by |-> c, op |-> o.name, ch |-> ch, a |-> a, calls |-> calls, io |-> io,
     err |-> out.err, at |-> out.at, val |-> out.val, reply |-> <<>>,
     replied |-> FALSE]

\* _validate_channel raised: nothing was handed to the transport
InvalidChannel(c, o, ch, a) ==
    Outcome(c, o, ch, a, 0, "none", Raised("ValueError", "_validate_channel"))

TransportCall(o) == IF o.kind = "query" THEN "inst.query" ELSE "inst.write"

\* the method catches the transport error and makes the call once more
RetryOnce(c, o, ch, a, io) ==
    Outcome(c, o, ch, a, 2, io,
            Raised(IF io = "closed" THEN "InvalidSession" ELSE "VisaIOError",
                   TransportCall(o)))

\* the transport call raised (a failed write, a read timeout, a closed session):
\* the method has no handler, so the error is the method's outcome
TransportError(c, o, ch, a, io) ==
    Outcome(c, o, ch, a, 1, io,
            Raised(IF io = "closed" THEN "InvalidSession" ELSE "VisaIOError",
                   TransportCall(o)))

\* the operation returns or raises r
Finish(c, r) ==
    /\ res' = r
    /\ exc' = (life = "block" /\ r.err # "none")
    /\ pc' = [pc EXCEPT ![c] = "idle"]
    /\ cur' = [cur EXCEPT ![c] = NoCall]

\* the command is written and the method returns without reading the reply
WriteOnly(c, o, ch) ==
    /\ inflight' = inflight + 1
    /\ res' = NoRes
    /\ UNCHANGED <<pc, cur, exc>>

\* inst.query wrote the command and now blocks in read until the reply line or
\* the timeout
QuerySent(c, o, ch) ==
    /\ pc' = [pc EXCEPT ![c] = "reading"]
    /\ cur' = [cur EXCEPT ![c] = [op |-> o.name, ch |-> ch]]
    /\ inflight' = inflight + 1
    /\ res' = NoRes
    /\ UNCHANGED exc

\* a query operation up to the point where inst.query has written its command
BeginQuery(c, o, ch, net) ==
    /\ Usable(c)
    /\ o.kind = "query"
    /\ IF o.scope = "channel" /\ ~_validate_channel(ch)
       THEN Finish(c, InvalidChannel(c, o, ch, NoArg)) /\ UNCHANGED inflight
       ELSE IF ~instOpen
       THEN Finish(c, TransportError(c, o, ch, NoArg, "closed"))
            /\ UNCHANGED inflight
       ELSE IF net = "fail"
       THEN Finish(c, TransportError(c, o, ch, NoArg, "fail"))
            /\ UNCHANGED inflight
       ELSE QuerySent(c, o, ch)
    /\ UNCHANGED <<life, leftBy, attrs, rmOpen, instOpen, closeHist, closeErr, instr,
                   programmed, scanVars, adapterVars>>

OpNamed(n) == CHOOSE o \in Ops : o.name = n

\* the reply lines the read may return: one of the mock's for this kind of
\* operation, or the instrument's own
RepliesTo(o, ch) == RepliesFor(o) \cup InstrumentReply(instr, Command(o, ch, NoArg))

\* inst.query got the reply line and the operation parses it
Parsed(c, o, ch, reply) ==
    [Outcome(c, o, ch, NoArg, 1, "ok", ParseReply(o, reply)) EXCEPT
        !.reply = reply, !.replied = TRUE]

\* inst.query reads the reply line and the operation parses it
ReadReply(c) ==
    /\ pc[c] = "reading"
    /\ \E reply \in RepliesTo(OpNamed(cur[c].op), cur[c].ch) :
           Finish(c, Parsed(c, OpNamed(cur[c].op), cur[c].ch, reply))
    /\ inflight' = inflight - 1
    /\ UNCHANGED <<life, leftBy, attrs, rmOpen, instOpen, closeHist, closeErr, instr,
                   programmed, scanVars, adapterVars>>

\* inst.query's read times out: pyvisa raises VisaIOError
ReadTimeout(c) ==
    /\ pc[c] = "reading"
    /\ Finish(c, TransportError(c, OpNamed(cur[c].op), cur[c].ch, NoArg, "timeout"))
    /\ inflight' = inflight - 1
    /\ UNCHANGED <<life, leftBy, attrs, rmOpen, instOpen, closeHist, closeErr, instr,
                   programmed, scanVars, adapterVars>>

\* a set_* or clear_* operation: one inst.write, no reply is read
Write(c, o, ch, a, net) ==
    /\ Usable(c)
    /\ o.kind = "write"
    /\ IF o.scope = "channel" /\ ~_validate_channel(ch)
       THEN Finish(c, InvalidChannel(c, o, ch, a)) /\ UNCHANGED <<instr, programmed>>
       ELSE IF ~instOpen
       THEN Finish(c, TransportError(c, o, ch, a, "closed"))
            /\ UNCHANGED <<instr, programmed>>
       ELSE IF net = "fail"
       THEN Finish(c, TransportError(c, o, ch, a, "fail"))
            /\ UNCHANGED <<instr, programmed>>
       ELSE /\ Finish(c, Outcome(c, o, ch, a, 1, "ok", Returned(NoVal)))
            /\ instr' = InstrumentApply(instr, Command(o, ch, a))
            /\ programmed' = IF o.name = "set_channel_settings" /\ ch \in ValidChannels
                             THEN [programmed EXCEPT ![ch] = a]
                             ELSE programmed
    /\ UNCHANGED <<life, leftBy, attrs, rmOpen, instOpen, closeHist, closeErr, inflight,
                   scanVars, adapterVars>>

(***************************************************************************)
(* get_all_output_states, get_all_settings, get_all_measurements           *)
(***************************************************************************)
\* for channel in [1, 2, 3]
AllChannels == <<1, 2, 3>>

get_all_output_states ==
    [name |-> "get_all_output_states", each |-> get_output_state]

get_all_settings ==
    [name |-> "get_all_settings", each |-> get_channel_settings]

get_all_measurements ==
    [name |-> "get_all_measurements", each |-> measure_all]

GetAllOps == {get_all_output_states, get_all_settings, get_all_measurements}

GetAllNamed(n) == CHOOSE g \in GetAllOps : g.name = n

\* the dictionary a comprehension has built from the (channel, value) pairs it
\* evaluated: a later pair for the same key replaces the earlier one
DictOf(acc) ==
    [ch \in {acc[k].ch : k \in DOMAIN acc} |->
        acc[CHOOSE k \in DOMAIN acc :
                /\ acc[k].ch = ch
                /\ \A j \in DOMAIN acc : acc[j].ch = ch => j <= k].val]

\* what the single-channel call made for the comprehension did, as the
\* transport saw it
Queried(r) == [ch |-> r.ch, reply |-> r.reply, replied |-> r.replied, err |-> r.err]

\* a comprehension that catches the error of a channel and returns the
\* dictionary of the channels before it
GetAllKeepPartial(f, r) ==
    [f EXCEPT !.st = "returned", !.rest = <<>>, !.val = DictOf(f.acc),
              !.queried = Append(f.queried, Queried(r))]

\* the single-channel call raised: the comprehension has no handler, the
\* exception leaves get_all_* and the dictionary under construction is dropped
GetAllFail(f, r) ==
    [f EXCEPT !.st = "raised", !.rest = <<>>, !.acc = <<>>, !.err = r.err,
              !.queried = Append(f.queried, Queried(r))]

\* the single-channel call returned: its value is stored under the channel, and
\* after the last channel the dictionary is returned
GetAllStore(f, r) ==
    LET acc == Append(f.acc, [ch |-> r.ch, val |-> r.val])
        rest == Tail(f.rest)
    IN  [f EXCEPT !.acc = acc, !.rest = rest,
                  !.queried = Append(f.queried, Queried(r)),
                  !.st = IF rest = <<>> THEN "returned" ELSE "running",
                  !.val = IF rest = <<>> THEN DictOf(acc) ELSE NoVal]

\* the comprehension after the single-channel call with outcome r
GetAllAfter(f, r) == IF r.err # "none" THEN GetAllFail(f, r) ELSE GetAllStore(f, r)

\* caller c calls get_all_*: the comprehension starts with an empty dictionary
GetAllBegin(c, g) ==
    /\ Usable(c)
    /\ fan.st # "running"
    /\ fan' = [NoFan EXCEPT !.op = g.name, !.st = "running", !.rest = AllChannels]
    /\ UNCHANGED <<life, leftBy, attrs, rmOpen, instOpen, exc, closeHist, closeErr,
                   pc, cur, inflight, instr, programmed, res, scanVars, adapterVars>>

\* the comprehension calls the single-channel operation for its next channel,
\* which hands its query to the transport
GetAllQuery(c, net) ==
    /\ fan.st = "running"
    /\ BeginQuery(c, GetAllNamed(fan.op).each, Head(fan.rest), net)
    /\ fan' = IF pc'[c] = "idle" THEN GetAllAfter(fan, res') ELSE fan

\* the single-channel operation gets its reply
GetAllRead(c) ==
    /\ fan.st = "running"
    /\ ReadReply(c)
    /\ fan' = GetAllAfter(fan, res')

\* the single-channel operation's read times out
GetAllTimeout(c) ==
    /\ fan.st = "running"
    /\ ReadTimeout(c)
    /\ fan' = GetAllAfter(fan, res')

(***************************************************************************)
(* Discovery: the reachability sweep                                       *)
(***************************************************************************)
HostsIn(st) == {h \in Hosts : ping[h].st = st}

\* the pings in flight: the tasks a worker thread is running
Running == HostsIn("running")

\* an executor that starts a thread for every task
Uncapped == TRUE

\* ThreadPoolExecutor(max_workers=50): the pool has a thread that is not
\* running a task, or starts one because it has fewer than max_workers
WorkerFree == Cardinality(Running) < max_workers

\* find_dp832_devices, find_first_dp832 (which calls it) or the script's
\* find_dp832 is called: responsive_ips = [], the executor is created
ScanCall(e) ==
    /\ spc = "idle"
    /\ call' = [NoScan EXCEPT !.entry = e]
    /\ spc' = "submit"
    /\ UNCHANGED <<clientVars, adapterVars, ping, snapshot, late, responsive_ips, probe_i,
                   session, probes, handles, dp832_devices, sres>>

\* for i in range(1, 255): futures[executor.submit(ping_ip, ip)] = ip
Submit ==
    /\ spc = "submit"
    /\ \E h \in HostsIn("new") :
           /\ \A g \in HostsIn("new") : h <= g
           /\ ping' = [ping EXCEPT ![h].st = "queued"]
    /\ UNCHANGED <<clientVars, adapterVars, call, spc, snapshot, late, responsive_ips, probe_i,
                   session, probes, handles, dp832_devices, sres>>

\* as_completed(futures) is entered: the futures finished by now will be
\* yielded first, in the order of a set
AsCompleted ==
    /\ spc = "submit"
    /\ HostsIn("new") = {}
    /\ snapshot' = HostsIn("finished")
    /\ spc' = "collect"
    /\ UNCHANGED <<clientVars, adapterVars, call, ping, late, responsive_ips, probe_i, session,
                   probes, handles, dp832_devices, sres>>

\* a worker thread takes the oldest queued task and calls ping_ip(ip); how the
\* ping will go is the network's choice
PingStart(h, how) ==
    /\ ping[h].st = "queued"
    /\ \A g \in HostsIn("queued") : h <= g
    /\ WorkerFree
    /\ ping' = [ping EXCEPT ![h].st = "running", ![h].how = how]
    /\ UNCHANGED <<clientVars, adapterVars, call, spc, snapshot, late, responsive_ips, probe_i,
                   session, probes, handles, dp832_devices, sres>>

\* ping_ip returns in the worker: the future gets its result and the worker
\* is free again
PingEnd(h) ==
    /\ ping[h].st = "running"
    /\ ping_ip(ping[h].how).ends
    /\ ping' = [ping EXCEPT ![h].st = "finished",
                            ![h].val = ping_ip(ping[h].how).val,
                            ![h].exc = ping_ip(ping[h].how).exc]
    /\ late' = IF spc = "collect" THEN Append(late, h) ELSE late
    /\ UNCHANGED <<clientVars, adapterVars, call, spc, snapshot, responsive_ips, probe_i,
                   session, probes, handles, dp832_devices, sres>>

\* the futures as_completed may yield next
NextYield ==
    IF snapshot # {} THEN snapshot
    ELSE IF late # <<>> THEN {Head(late)}
    ELSE {}

\* one turn of "for future in as_completed(futures)" in the calling thread:
\* if future.result(): responsive_ips.append(ip); after the last future the
\* with block ends and "if not responsive_ips" returns the empty result
Collect(h) ==
    /\ spc = "collect"
    /\ h \in NextYield
    /\ ping' = [ping EXCEPT ![h].st = "yielded"]
    /\ snapshot' = snapshot \ {h}
    /\ late' = IF snapshot # {} THEN late ELSE Tail(late)
    /\ LET responsive == IF ping[h].val /\ ~ping[h].exc
                          THEN Append(responsive_ips, h) ELSE responsive_ips
           last == \A g \in Hosts \ {h} : ping[g].st = "yielded"
       IN  /\ responsive_ips' = responsive
           /\ spc' = IF ping[h].exc \/ (last /\ responsive = <<>>) THEN "done"
                      ELSE IF last THEN "probe"
                      ELSE "collect"
           /\ sres' = IF ping[h].exc
                       THEN [NoScanResult EXCEPT !.kind = "raise", !.err = ping[h].how]
                       ELSE IF last /\ responsive = <<>> THEN Emit(call.entry, <<>>)
                       ELSE sres
    /\ UNCHANGED <<clientVars, adapterVars, call, probe_i, session, probes, handles, dp832_devices>>

(***************************************************************************)
(* Discovery: the identification probes                                    *)
(***************************************************************************)
\* every host of the subnet, whether it answered or not
EveryHost == [h \in Hosts |-> h]

RECURSIVE Reverse(_)
Reverse(q) == IF q = <<>> THEN <<>> ELSE Append(Reverse(Tail(q)), Head(q))

\* for ip in reversed(responsive_ips)
NewestFirst ==
    IF call.entry \in TestEntries THEN <<call.addr>> ELSE Reverse(responsive_ips)

\* the addresses the identification loop goes through: for ip in
\* responsive_ips, or the one address given to test_ip
Candidates == IF call.entry \in TestEntries THEN <<call.addr>> ELSE responsive_ips

\* test_ip(ip_address) of discovery.py or test_ip(ip) of test_ip.py is called;
\* the latter raises ImportError when pyvisa could not be imported
TestIpCall(e, addr, visa) ==
    /\ spc = "idle"
    /\ call' = [entry |-> e, addr |-> addr, visa |-> visa]
    /\ IF e = "test_ip.py" /\ ~visa
       THEN /\ spc' = "done"
            /\ sres' = [NoScanResult EXCEPT !.kind = "raise", !.err = "ImportError"]
       ELSE /\ spc' = "probe"
            /\ UNCHANGED sres
    /\ UNCHANGED <<clientVars, adapterVars, ping, snapshot, late, responsive_ips, probe_i,
                   session, probes, handles, dp832_devices>>

\* the probe of host h ended as p says: its result is tested, and the loop
\* goes on or the entry point returns
ProbeDone(h, p) ==
    LET r    == test_dp832_connection(call.entry, p)
        last == probe_i + 1 = Len(Candidates)
        devs == IF Truthy(r) /\ call.entry \in {"find_dp832_devices", "find_first_dp832"}
                THEN Append(dp832_devices, <<h, r.val[1]>>)
                ELSE dp832_devices
    IN  /\ probes' = Append(probes, p)
        /\ probe_i' = probe_i + 1
        /\ dp832_devices' = devs
        /\ IF call.entry \in TestEntries
           THEN spc' = "done" /\ sres' = r
           ELSE IF call.entry = "find_dp832" /\ Truthy(r)
           THEN /\ spc' = "done"
                /\ sres' = [NoScanResult EXCEPT !.kind = "pair",
                                                !.val = <<<<h, r.val[1]>>>>]
           ELSE IF last
           THEN spc' = "done" /\ sres' = Emit(call.entry, devs)
           ELSE spc' = "probe" /\ UNCHANGED sres

\* what ResourceManager() and open_resource(..) leave open for host h: the
\* manager once it was created, the session once it was opened
Opened(h, out) ==
    IF out = "opened" THEN {[host |-> h, what |-> "rm"], [host |-> h, what |-> "inst"]}
    ELSE IF out = "open_error" THEN {[host |-> h, what |-> "rm"]}
    ELSE {}

\* inst.close(); rm.close() after the reply: both are closed, or inst.close()
\* raised and rm.close() was not reached
Closed(h, out) ==
    IF out = "reply" THEN {[host |-> h, what |-> "rm"], [host |-> h, what |-> "inst"]}
    ELSE {[host |-> h, what |-> "inst"]}

\* test_dp832_connection(ip) up to inst.query: import pyvisa, ResourceManager(),
\* open_resource(..); any of them may raise, which ends the probe, and an
\* address that is none cannot be opened
ProbeBegin(out) ==
    /\ spc = "probe"
    /\ probe_i < Len(Candidates)
    /\ (out = "import_error") <=> ~call.visa
    /\ ~Wellformed(Candidates[probe_i + 1]) => out # "opened"
    /\ LET h == Candidates[probe_i + 1]
       IN  /\ handles' = handles \cup Opened(h, out)
           /\ IF out = "opened"
              THEN /\ session' = session \cup {h}
                   /\ spc' = "query"
                   /\ UNCHANGED <<probes, probe_i, dp832_devices, sres>>
              ELSE /\ ProbeDone(h, [host |-> h, out |-> out, reply |-> <<>>])
                   /\ UNCHANGED session
    /\ UNCHANGED <<clientVars, adapterVars, call, ping, snapshot, late, responsive_ips>>

\* inst.query("*IDN?") returns the reply line; inst.close(), rm.close(), which
\* return (out is "reply") or raise (out is "close_error")
ProbeReply(reply, out) ==
    /\ spc = "query"
    /\ \E h \in session :
           /\ session' = session \ {h}
           /\ handles' = handles \ Closed(h, out)
           /\ ProbeDone(h, [host |-> h, out |-> out, reply |-> reply])
    /\ UNCHANGED <<clientVars, adapterVars, call, ping, snapshot, late, responsive_ips>>

\* inst.query("*IDN?") raises after timeout=2000 without a reply
ProbeTimeout ==
    /\ spc = "query"
    /\ \E h \in session :
           /\ session' = session \ {h}
           /\ ProbeDone(h, [host |-> h, out |-> "timeout", reply |-> <<>>])
    /\ UNCHANGED handles
    /\ UNCHANGED <<clientVars, adapterVars, call, ping, snapshot, late, responsive_ips>>

(***************************************************************************)
(* The agent-tool adapter (mcp_rigol_dp832.py)                             *)
(***************************************************************************)
\* get_device_info and the channel, measurement, protection and alarm tools
ChannelTools == {o.name : o \in ChannelOps} \ {"measure_power"}

DeviceTools == {"get_device_info"} \cup ChannelTools

\* a tool whose call on the session is wrapped in try / except Exception
Wrapped(t) == t \in ChannelTools

\* get_device_info wrapped like every other tool
WrappedAll(t) == t \in DeviceTools

\* what a call on the session object does: it returns, or it raises a
\* validation, transport or parse error
SessionOutcomes == {"ok", "ValueError", "VisaIOError", "IndexError"}

\* close() of a session: it returns, or it raises with the session still
\* open, or it raises after the session was torn down
CloseOutcomes == {"ok", "raise", "raise_closed"}

\* the state of a session after close() with that outcome
AfterClose(st, closing) == IF closing = "raise" THEN st ELSE "closed"

\* a method call on the handle h: None has no methods, a closed session
\* raises before any I/O
SessionCall(s, h, out) ==
    IF h = None THEN "AttributeError"
    ELSE IF s[h] = "closed" THEN "InvalidSession" ELSE out

\* how many commands a call with that outcome put on the wire
Sent(out) ==
    IF out \in {"ValueError", "InvalidSession", "AttributeError"} THEN 0 ELSE 1

ToolReturned(t, status, err) ==
    [NoToolResult EXCEPT !.tool = t, !.kind = "returned", !.status = status,
                         !.err = err, !.had = current_ps]

ToolRaised(t, err) ==
    [NoToolResult EXCEPT !.tool = t, !.kind = "raised", !.err = err,
                         !.had = current_ps]

\* auto-discovery run twice when the first run found nothing
AutoDiscoverRetry(found) ==
    [ip |-> IF found = "found" THEN 1 ELSE None,
     runs |-> IF found = "found" THEN 1 ELSE 2]

\* auto_discover_device: one find_dp832() call; its address, None when it
\* found nothing or raised
auto_discover_device(found) ==
    [ip |-> IF found = "found" THEN 1 ELSE None, runs |-> 1]

DiscoveryOutcomes == {"found", "none", "error"}

\* connect without "if current_ps: current_ps.close()"
KeepPrevious(s, h, closing) == s

\* connect: if current_ps: current_ps.close()
ClosePrevious(s, h, closing) ==
    IF h = None THEN s ELSE [s EXCEPT ![h] = AfterClose(s[h], closing)]

\* a device tool without its guard: it goes on to use the handle
NeverGuard(h) == FALSE

\* if not current_ps: raise RuntimeError("No device connected. ..")
NotConnected(h) == h = None

\* disconnect with "current_ps = None" in a finally clause
ReleaseAlways(h, closing) == None

\* disconnect: current_ps = None follows close() inside the try
Release(h, closing) == IF closing = "ok" THEN None ELSE h

\* connect(ip_address, port): close the current session, settle the address
\* (the argument, else RIGOL_DP832_IP, else auto-discovery), open a session,
\* install it as current_ps, ask it for its identification
Connect(ip_address, closing, found, opening, asking) ==
    /\ Len(sess) < MaxConnects
    /\ LET t == "connect"
           closeRaised == current_ps # None /\ closing # "ok"
           closed == ClosePrevious(sess, current_ps, closing)
           discover == ~closeRaised /\ ip_address = None /\ DEFAULT_IP = None
           d == auto_discover_device(found)
           addr == IF ip_address # None THEN ip_address
                   ELSE IF DEFAULT_IP # None THEN DEFAULT_IP ELSE d.ip
           opens == ~closeRaised /\ addr # None /\ opening = "ok"
           r == IF closeRaised THEN ToolReturned(t, "failed", "close")
                ELSE IF addr = None
                THEN ToolReturned(t, "failed", "No IP address configured")
                ELSE IF ~opens THEN ToolReturned(t, "failed", opening)
                ELSE IF asking = "ok" THEN ToolReturned(t, "connected", "none")
                ELSE ToolReturned(t, "failed", asking)
       IN  /\ sess' = IF opens THEN Append(closed, "open") ELSE closed
           /\ current_ps' = IF opens THEN Len(sess) + 1 ELSE current_ps
           /\ tres' = [r EXCEPT !.arg = ip_address,
                                !.found = IF discover THEN found ELSE "",
                                !.runs = IF discover THEN d.runs ELSE 0,
                                !.opened = IF opens THEN 1 ELSE 0,
                                !.sent = IF opens THEN Sent(asking) ELSE 0]
    /\ UNCHANGED <<clientVars, scanVars, DEFAULT_IP>>

\* disconnect()
Disconnect(closing) ==
    /\ IF current_ps = None
       THEN /\ tres' = [ToolReturned("disconnect", "", "none")
                           EXCEPT !.val = "No active connection to disconnect"]
            /\ UNCHANGED <<sess, current_ps>>
       ELSE /\ sess' = [sess EXCEPT ![current_ps] = AfterClose(@, closing)]
            /\ current_ps' = Release(current_ps, closing)
            /\ tres' = IF closing = "ok"
                       THEN [ToolReturned("disconnect", "", "none")
                                EXCEPT !.val = "Disconnected successfully"]
                       ELSE [ToolReturned("disconnect", "", "close")
                                EXCEPT !.val = "Error during disconnect"]
    /\ UNCHANGED <<clientVars, scanVars, DEFAULT_IP>>

\* get_device_info and the twenty tools built like get_channel_settings:
\* the guard, then the call on current_ps
DeviceTool(t, out) ==
    /\ t \in DeviceTools
    /\ IF NotConnected(current_ps)
       THEN tres' = ToolRaised(t, "No device connected")
       ELSE LET met == SessionCall(sess, current_ps, out)
            IN  tres' = [(IF met = "ok" THEN ToolReturned(t, "success", "none")
                          ELSE IF Wrapped(t) THEN ToolReturned(t, "error", met)
                          ELSE ToolRaised(t, met))
                            EXCEPT !.sent = Sent(met)]
    /\ UNCHANGED <<clientVars, scanVars, DEFAULT_IP, sess, current_ps>>

\* discover_devices(): find_dp832(), then a session of its own to ask the
\* device found for its identification
DiscoverDevices(found, opening, asking) ==
    /\ tres' = IF found # "found"
               THEN [ToolReturned("discover_devices", "", found) EXCEPT !.runs = 1]
               ELSE IF opening # "ok"
               THEN [ToolReturned("discover_devices", "", opening) EXCEPT !.runs = 1]
               ELSE [ToolReturned("discover_devices", "",
                              IF asking = "ok" THEN "none" ELSE asking)
                        EXCEPT !.runs = 1, !.opened = 1, !.sent = Sent(asking)]
    /\ UNCHANGED <<clientVars, scanVars, DEFAULT_IP, sess, current_ps>>

\* test_connection(ip_address): the address as in connect, test_ip on it,
\* then a session of its own when test_ip recognised the device
TestConnection(ip_address, found, probe, opening, asking) ==
    /\ LET t == "test_connection"
           discover == ip_address = None /\ DEFAULT_IP = None
           d == auto_discover_device(found)
           runs == IF discover THEN d.runs ELSE 0
       IN  tres' =
             IF discover /\ d.ip = None
             THEN [ToolReturned(t, "failed", "No IP address configured")
                      EXCEPT !.runs = runs]
             ELSE IF probe = "raise"
             THEN [ToolReturned(t, "failed", "test_ip") EXCEPT !.runs = runs]
             ELSE IF probe = "none"
             THEN [ToolReturned(t, "failed", "No DP832 device found")
                      EXCEPT !.runs = runs]
             ELSE IF opening # "ok"
             THEN [ToolReturned(t, "failed", opening) EXCEPT !.runs = runs]
             ELSE [ToolReturned(t, IF asking = "ok" THEN "success" ELSE "failed",
                            IF asking = "ok" THEN "none" ELSE asking)
                      EXCEPT !.runs = runs, !.opened = 1, !.sent = Sent(asking)]
    /\ UNCHANGED <<clientVars, scanVars, DEFAULT_IP, sess, current_ps>>

(***************************************************************************)
(* Specifications                                                          *)
(***************************************************************************)
Net == {"ok", "fail"}

\* the methods caller c may invoke, with the arguments it may pass
Operate(c, ops, channels, args) ==
    \/ \E o \in ops, ch \in channels, net \in Net :
           BeginQuery(c, o, ch, net) /\ UNCHANGED fan
    \/ ReadReply(c) /\ UNCHANGED fan
    \/ ReadTimeout(c) /\ UNCHANGED fan
    \/ \E o \in ops, ch \in channels, a \in args, net \in Net :
           Write(c, o, ch, a, net) /\ UNCHANGED fan

\* one set of arguments: on, 5.0 V, 1.0 A
OneArg == {a \in ArgInputs : a.on}

\* one set of arguments: off, 12 V, 0.5 A
OffArg == {a \in ArgInputs : ~a.on}

\* a program that opens a client and calls any of its operations from one thread
Next ==
    \/ Construct("plain", "ok")
    \/ Operate(Main, Ops, ChannelInputs, OffArg)

Spec == Init /\ [][Next]_vars

\* programming and reading back channel settings and output states
SettingsOps == {set_channel_settings, get_channel_settings, set_output_state,
                get_output_state}

NextSettings ==
    \/ Construct("plain", "ok")
    \/ Operate(Main, SettingsOps, ChannelInputs, ArgInputs)

SpecSettings == Init /\ [][NextSettings]_vars

\* the life of the client object: construction in either style, with either
\* failure, close() and leaving the with block, around a few operations
LifeOps == {id, measure_voltage, set_output_state}

NextLife ==
    \/ \E mode \in {"plain", "block"}, outcome \in {"ok", "rm_error", "open_error"} :
           Construct(mode, outcome)
    \/ Close(Main)
    \/ Exit(Main)
    \/ Operate(Main, LifeOps, {0, 1}, OneArg)

SpecLife == Init /\ [][NextLife]_vars

\* several threads call operations of one client object, with nothing between them
RaceOps == {measure_voltage, get_output_state, set_output_state}

NextRace ==
    \/ Construct("plain", "ok")
    \/ \E c \in Callers : Operate(c, RaceOps, {1}, OneArg)

SpecRace == Init /\ [][NextRace]_vars

\* a program that opens a client and calls the get_all_* methods from one thread
NextAll ==
    \/ Construct("plain", "ok")
    \/ \E g \in GetAllOps : GetAllBegin(Main, g)
    \/ \E net \in Net : GetAllQuery(Main, net)
    \/ GetAllRead(Main)
    \/ GetAllTimeout(Main)

SpecAll == Init /\ [][NextAll]_vars

\* what opening a session may fail with, or not
OpenOutcomes == {"import_error", "rm_error", "open_error", "opened"}

\* how a probe may go besides getting its reply or timing out
ProbeOutcomes == {"rm_error", "open_error", "opened", "close_error"}

\* a discovery call: the entry points called, how pings may go, how opening a
\* session may go and what may answer *IDN?
Discover(entries, hows, outs, replies) ==
    \/ \E e \in entries \cap ScanEntries : ScanCall(e)
    \/ Submit
    \/ AsCompleted
    \/ \E h \in Hosts, how \in hows : PingStart(h, how)
    \/ \E h \in Hosts : PingEnd(h)
    \/ \E h \in Hosts : Collect(h)
    \/ \E out \in outs \cap OpenOutcomes : ProbeBegin(out)
    \/ \E reply \in replies, out \in {"reply"} \cup (outs \ OpenOutcomes) :
           ProbeReply(reply, out)
    \/ ProbeTimeout

\* a scan of the subnet by either of discovery.py's entry points or by the
\* script's find_dp832
NextScan ==
    Discover(ScanEntries, PingBehaviours, ProbeOutcomes,
             {R_idn, R_idn_cr, R_idn_scope})

SpecScan == Init /\ [][NextScan]_vars

\* the two take-first scans, discovery.py's find_first_dp832 and the script's
\* find_dp832, over hosts that answer as a DP832, a DP821, an oscilloscope,
\* or not at all
NextFirst ==
    Discover({"find_first_dp832", "find_dp832"}, {"reply", "noreply"},
             {"open_error", "opened"}, {R_idn, R_idn_821, R_idn_scope})

SpecFirst == Init /\ [][NextFirst]_vars

\* the addresses test_ip is called with: a host of the subnet, and a text
\* that is no address
AddrInputs == {1, Malformed}

\* the identification replies tried on every entry point
IdnReplies ==
    {R_idn_cr, R_idn_lower, R_idn_821, R_idn_712, R_idn_scope, R_idn_acme, R_empty}

\* the same hosts met through the scan and through either test_ip, with
\* pyvisa installed or not
NextProbe ==
    \/ Discover({"find_dp832_devices"}, {"reply", "noreply"},
                ProbeOutcomes \cup {"import_error"}, IdnReplies)
    \/ \E e \in TestEntries, addr \in AddrInputs, visa \in BOOLEAN :
           TestIpCall(e, addr, visa)

SpecProbe == Init /\ [][NextProbe]_vars

\* a scan by find_dp832_devices with pings of every kind, and one device
NextSweep ==
    Discover({"find_dp832_devices"}, PingBehaviours, {"opened"}, {R_idn})

\* the threads of the sweep keep running: the calling thread submits and
\* collects, a free worker takes the next task, and a ping_ip that can return
\* does, which subprocess.run's timeout=2 makes true of every ping
SweepFairness ==
    /\ WF_vars(Submit)
    /\ WF_vars(AsCompleted)
    /\ WF_vars(\E h \in Hosts, how \in PingBehaviours : PingStart(h, how))
    /\ \A h \in Hosts : WF_vars(PingEnd(h))
    /\ WF_vars(\E h \in Hosts : Collect(h))

SpecSweepFair == Init /\ [][NextSweep]_vars /\ SweepFairness

\* the adapter: its tools called one after another, every outcome of the
\* session and of discovery
IpInputs == {None, 1}

OpeningOutcomes == {"ok", "VisaIOError"}

AskingOutcomes == {"ok", "VisaIOError", "IndexError"}

NextAdapter ==
    \/ \E ip \in IpInputs, closing \in CloseOutcomes, found \in DiscoveryOutcomes,
          opening \in OpeningOutcomes, asking \in AskingOutcomes :
          Connect(ip, closing, found, opening, asking)
    \/ \E closing \in CloseOutcomes : Disconnect(closing)
    \/ \E t \in DeviceTools, out \in SessionOutcomes : DeviceTool(t, out)
    \/ \E found \in DiscoveryOutcomes, opening \in OpeningOutcomes,
          asking \in AskingOutcomes : DiscoverDevices(found, opening, asking)
    \/ \E ip \in IpInputs, found \in DiscoveryOutcomes,
          probe \in {"id", "none", "raise"}, opening \in OpeningOutcomes,
          asking \in AskingOutcomes :
          TestConnection(ip, found, probe, opening, asking)

SpecAdapter == InitEnv /\ [][NextAdapter]_vars

(***************************************************************************)
(* Properties                                                              *)
(***************************************************************************)
ChannelOpNames == {o.name : o \in ChannelOps}

\* C1: a channel-scoped operation called with a channel outside {1, 2, 3} raises
\* ValueError from _validate_channel without a transport call: its outcome
\* counts no call, no query of such a channel is ever awaiting a reply, and
\* nothing is in flight when it has raised.
C1_InvalidChannelNoIO ==
    /\ (res.op \in ChannelOpNames /\ res.ch \notin {1, 2, 3}) =>
           /\ res.err = "ValueError"
           /\ res.at = "_validate_channel"
           /\ res.calls = 0
           /\ inflight = 0
    /\ \A c \in Callers :
           (pc[c] = "reading" /\ cur[c].op \in ChannelOpNames) => cur[c].ch \in {1, 2, 3}

\* a clear command for channel 4 was refused after channel 1 had been programmed
C1_Witness ==
    /\ res.op = "clear_ovp_alarm" /\ res.ch = 4 /\ res.err = "ValueError"
    /\ instr.appl[1] # InstrumentInit.appl[1]

Reading == {c \in Callers : pc[c] = "reading"}

\* C2 as claimed: whatever the interleaving of the callers of one client, at
\* most one request is in flight on its session.
C2_AtMostOneInFlight == inflight <= 1

\* C2 as amended: every operation is synchronous for its caller (the command is
\* written, then the caller blocks until the reply or the timeout), so the
\* requests in flight never outnumber the callers that are inside a query; when
\* the callers serialise their use of the client that is at most one.
C2_InFlightWithinCallers ==
    /\ inflight = Cardinality(Reading)
    /\ Cardinality(Reading) <= 1 => inflight <= 1

\* one caller is blocked in a query while the other is idle
C2_Witness ==
    /\ inflight = 1
    /\ \E c \in Callers : pc[c] = "reading" /\ cur[c].op = "measure_voltage"
    /\ \E c \in Callers : pc[c] = "idle"

\* C3: once the with block has been left, at its end or by an exception an
\* operation raised inside it, the session and its resource manager are closed.
C3_ScopedBlockCloses ==
    life = "left" => (~instOpen /\ ~rmOpen /\ ~exc /\ leftBy \in {"normal", "error"})

\* the block was left by the ValueError float() raised on the reply "abc"
C3_Witness ==
    /\ life = "left" /\ leftBy = "error"
    /\ res.op = "measure_voltage" /\ res.reply = R_abc /\ res.err = "ValueError"
    /\ ~instOpen

\* C4: close() never raises, also on an object whose __init__ raised before
\* self.rm or self.inst was assigned; once it has run the session and the
\* resource manager are closed, and nothing that follows (another close(), the
\* __exit__ of the block, a method call) changes that.
C4_CloseIdempotent ==
    /\ [](closeErr = "none")
    /\ [](closeHist # "never" => (~instOpen /\ ~rmOpen))
    /\ [][closeHist # "never" => UNCHANGED <<instOpen, rmOpen, attrs, closeErr>>]_vars

\* close() ran twice on an object whose open_resource call had raised
C4_Witness ==
    /\ life = "failed" /\ attrs = {"rm"}
    /\ closeHist = "reclosed" /\ closeErr = "none" /\ ~rmOpen

\* C5: identify and every channel operation called with a valid channel makes
\* exactly one transport call, and when that call fails (the write fails, the
\* read times out) the method raises the transport's error having made that
\* one call only and returns no value.
C5_OneCallNoRetry ==
    /\ (res.op = "id" \/ (res.op \in ChannelOpNames /\ res.ch \in {1, 2, 3})) =>
           res.calls = 1
    /\ res.io \in {"fail", "timeout"} =>
           (res.err = "VisaIOError" /\ res.calls = 1 /\ res.val = NoVal /\ inflight = 0)

\* the read of a measure_current query timed out
C5_Witness ==
    /\ res.op = "measure_current" /\ res.ch = 2 /\ res.io = "timeout"
    /\ res.err = "VisaIOError" /\ res.calls = 1

\* the Python float m * 10^e
F(m, e) == [special |-> "", num |-> <<m, e>>]

\* the replies in which a field the operation reads as a float is present and
\* is no number
NonNumericFor(op) ==
    CASE op \in {"measure_voltage", "measure_current", "get_ocp_value", "get_ovp_value"} ->
             {R_abc, R_empty, R_ON, R_all}
      [] op = "measure_all"          -> {R_all_bad2, R_all_bad3, R_abc, R_empty}
      [] op = "measure_power"        -> {R_all_bad3}
      [] op = "get_channel_settings" -> {R_appl_bad}
      [] OTHER                       -> {}

\* C6: when a field that a float-parsing operation reads from the reply is not
\* a number ("abc", an empty field, a word), the operation raises the
\* ValueError of float() and returns nothing: no default value, no success.
C6_NonNumericRaises ==
    (/\ res.replied
     /\ res.op \in {o.name : o \in FloatOps}
     /\ res.reply \in NonNumericFor(res.op)) =>
        (res.err = "ValueError" /\ res.at = "float" /\ res.val = NoVal)

\* get_ocp_value read the reply "abc"
C6_Witness ==
    /\ res.op = "get_ocp_value" /\ res.replied /\ res.reply = R_abc
    /\ res.err = "ValueError"

\* the number of comma-separated fields of a reply line
FieldCount(reply) == 1 + Cardinality({k \in 1..Len(reply) : reply[k] = ","})

\* C7 as claimed: identify raises unless the reply has exactly 4 fields,
\* measure_all and measure_power raise unless it has exactly 3, and
\* get_channel_settings raises when it has fewer than 2.
C7_WrongFieldCountRaises ==
    res.replied =>
        /\ (res.op = "id" /\ FieldCount(res.reply) # 4) => res.err # "none"
        /\ (res.op \in {"measure_all", "measure_power"} /\ FieldCount(res.reply) # 3) =>
               res.err # "none"
        /\ (res.op = "get_channel_settings" /\ FieldCount(res.reply) < 2) =>
               res.err # "none"

\* the reply an instrument that reports its programmed values gives to :APPL?
EchoOf(ch) == InstrumentReply(instr, [verb |-> ":APPL?", ch |-> ch, args |-> <<>>])

\* C8: get_channel_settings(ch), answered by an instrument that reports what
\* was last programmed for ch, returns the voltage and current that the last
\* set_channel_settings(ch, v, i) was given, whatever was done to the other
\* channels since.
C8_SettingsRoundTrip ==
    (/\ res.op = "get_channel_settings" /\ res.replied
     /\ res.reply \in EchoOf(res.ch)
     /\ programmed[res.ch] # NoArg) =>
        /\ res.err = "none"
        /\ res.val = [voltage |-> F(ValueOf(programmed[res.ch].v)[1],
                                    ValueOf(programmed[res.ch].v)[2]),
                      current |-> F(ValueOf(programmed[res.ch].i)[1],
                                    ValueOf(programmed[res.ch].i)[2])]

\* channel 2 was programmed with the int 12 and 0.5, channel 1 with 5.0 and
\* 1.0, and channel 2 reads back 12.0 and 0.5
C8_Witness ==
    /\ res.op = "get_channel_settings" /\ res.ch = 2 /\ res.replied
    /\ res.reply \in EchoOf(2)
    /\ programmed[2].v = [py |-> "int", m |-> 12, e |-> 0]
    /\ programmed[1].v = [py |-> "float", m |-> 5, e |-> 0]
    /\ res.err = "none"
    /\ res.val = [voltage |-> F(12, 0), current |-> F(5, -1)]

\* C9: get_output_state returns True exactly when the reply line, without its
\* surrounding whitespace, is the token ON; OFF, on, YES, 1 and the empty line
\* give False.  Answered by an instrument whose output was last switched on
\* with set_output_state(ch, True), it returns True.
C9_OutputStateLiteral ==
    (res.op = "get_output_state" /\ res.replied) =>
        /\ res.err = "none"
        /\ res.val = (res.reply \in {R_ON, R_ON_CR, R_SP_ON})
        /\ res.reply \in {R_OFF, R_on, R_YES, R_1, R_empty} => res.val = FALSE
        /\ (res.reply = instr.stat[res.ch] /\ instr.stat[res.ch] = OnOff(TRUE)) =>
               res.val = TRUE

\* channel 3 was switched on and its state query was answered "ON"
C9_Witness ==
    /\ res.op = "get_output_state" /\ res.ch = 3 /\ res.replied
    /\ instr.stat[3] = R_ON /\ instr.stat[1] = R_OFF
    /\ res.reply = R_ON /\ res.val = TRUE

\* what the well-formed :MEAS:ALL? replies say: voltage, current, power
Measured(reply) ==
    IF reply = R_all THEN <<F(5002, -3), F(1001, -3), F(5007, -3)>>
    ELSE <<F(12, 0), F(5, -1), F(6, 0)>>

\* C10: measure_all returns the three fields of "5.002,1.001,5.007" as voltage
\* 5.002, current 1.001 and power 5.007 (and those of "12.00,0.50,6.0" as 12.0,
\* 0.5 and 6.0), and measure_power returns for a reply the power measure_all
\* returns for it.
C10_MeasureAllFields ==
    /\ (res.op = "measure_all" /\ res.replied /\ res.reply \in {R_all, R_all_b}) =>
           /\ res.err = "none"
           /\ res.val = [voltage |-> Measured(res.reply)[1],
                         current |-> Measured(res.reply)[2],
                         power   |-> Measured(res.reply)[3]]
    /\ (res.op = "measure_power" /\ res.replied /\ res.reply \in {R_all, R_all_b}) =>
           (res.err = "none" /\ res.val = Measured(res.reply)[3])

\* measure_all read "5.002,1.001,5.007" on channel 1
C10_Witness ==
    /\ res.op = "measure_all" /\ res.ch = 1 /\ res.reply = R_all
    /\ res.err = "none" /\ res.val.power = F(5007, -3)

\* the channels of a history of single-channel calls, in the order made
ChannelsOf(q) == [k \in DOMAIN q |-> q[k].ch]

IsPrefix(s, t) == Len(s) <= Len(t) /\ \A k \in DOMAIN s : s[k] = t[k]

\* C11: get_all_output_states, get_all_settings and get_all_measurements query
\* channels 1, 2, 3 one at a time in that order; what they return is a mapping
\* with keys exactly {1, 2, 3}, each channel mapped to the result of the
\* single-channel operation on the reply to that channel's query; when the
\* query of a channel fails the call raises that error, makes no further
\* query and returns no mapping.
C11_GetAllFanOut ==
    fan.op # "none" =>
        LET each == GetAllNamed(fan.op).each
            q    == fan.queried
        IN  /\ inflight <= 1
            /\ IsPrefix(ChannelsOf(q), <<1, 2, 3>>)
            /\ pc[Main] = "reading" =>
                   cur[Main] = [op |-> each.name, ch |-> Len(q) + 1]
            /\ \A k \in DOMAIN q : q[k].err # "none" => (k = Len(q) /\ fan.st = "raised")
            /\ fan.st = "returned" =>
                   /\ ChannelsOf(q) = <<1, 2, 3>>
                   /\ DOMAIN fan.val = {1, 2, 3}
                   /\ \A ch \in {1, 2, 3} :
                          /\ q[ch].replied
                          /\ ParseReply(each, q[ch].reply).err = "none"
                          /\ fan.val[ch] = ParseReply(each, q[ch].reply).val
            /\ fan.st = "raised" =>
                   /\ fan.val = NoVal
                   /\ q # <<>>
                   /\ q[Len(q)].err # "none"
                   /\ fan.err = q[Len(q)].err

\* get_all_measurements returned after three different replies
C11_Witness ==
    /\ fan.op = "get_all_measurements"
    /\ fan.st = "returned"
    /\ fan.queried[1].reply = R_all
    /\ fan.queried[2].reply = R_all_b
    /\ fan.queried[3].reply = R_all4
    /\ fan.val[2].voltage = F(12, 0)

\* get_all_settings raised at channel 2 after channel 1 had answered
C11_WitnessFailure ==
    /\ fan.op = "get_all_settings"
    /\ fan.st = "raised"
    /\ Len(fan.queried) = 2
    /\ fan.queried[1].replied

(***************************************************************************)
(* Discovery                                                               *)
(***************************************************************************)
\* the host answered its ping
Answered(h) == ping[h].how = "reply"

\* the identification replies of a DP832
TargetReplies == {R_idn, R_idn_cr, R_idn_lower}

\* 'RIGOL,DP832'
R_idn_stripped == <<"R", "I", "G", "O", "L", ",", "D", "P", "8", "3", "2">>

\* the identification string of a reply line
IdnText(reply) == IF reply = R_idn_cr THEN R_idn_stripped ELSE reply

\* the probes of host h that got a DP832's reply
TargetProbes(h) ==
    {k \in DOMAIN probes :
        probes[k].host = h /\ probes[k].out = "reply" /\ probes[k].reply \in TargetReplies}

ScanDone(e) == spc = "done" /\ call.entry = e

\* C12: find_dp832_devices returns a list with one (address, identification)
\* entry for exactly the hosts 1..LastHost that answered the ping and whose
\* probe got a DP832's identification, each once, and nothing else.
C12_ScanResultExact ==
    ScanDone("find_dp832_devices") =>
        /\ sres.kind = "list"
        /\ {sres.val[k][1] : k \in DOMAIN sres.val}
               = {h \in Hosts : Answered(h) /\ TargetProbes(h) # {}}
        /\ \A j, k \in DOMAIN sres.val : sres.val[j][1] = sres.val[k][1] => j = k
        /\ \A k \in DOMAIN sres.val :
               \E n \in TargetProbes(sres.val[k][1]) :
                   sres.val[k][2] = IdnText(probes[n].reply)

\* hosts 1 and 2 answered, only host 2 identified as a DP832: the list is the
\* one entry for host 2
C12_Witness ==
    /\ ScanDone("find_dp832_devices")
    /\ Answered(1) /\ Answered(2) /\ ~Answered(3)
    /\ Len(probes) = 2
    /\ probes[1].reply = R_idn_scope
    /\ probes[2].reply = R_idn_cr
    /\ sres.val = <<<<2, R_idn_stripped>>>>

\* the list the full scan returns when the sweep collected the hosts ips in
\* this order and the probes went as recorded: the (host, identification)
\* pairs of the hosts whose probe got a DP832's reply
RECURSIVE FullScanList(_)
FullScanList(ips) ==
    IF ips = <<>> THEN <<>>
    ELSE LET h == Head(ips)
         IN  IF TargetProbes(h) = {} THEN FullScanList(Tail(ips))
             ELSE <<<<h, IdnText(probes[CHOOSE n \in TargetProbes(h) : TRUE].reply)>>>>
                      \o FullScanList(Tail(ips))

\* C13: find_first_dp832 returns the first element of the list that
\* find_dp832_devices returns for the same sweep and probe outcomes, and None
\* when that list is empty; the host it returns is one the full scan returns.
C13_FirstOfFullScan ==
    ScanDone("find_first_dp832") =>
        LET full == FullScanList(responsive_ips)
        IN  /\ full = <<>> => sres.kind = "None" /\ sres.val = <<>>
            /\ full # <<>> => sres.kind = "pair" /\ sres.val = <<full[1]>>
            /\ \A k \in DOMAIN sres.val :
                   \E j \in DOMAIN full : full[j] = sres.val[k]

\* find_first_dp832 returned the first of two devices found
C13_Witness ==
    /\ ScanDone("find_first_dp832")
    /\ Len(FullScanList(responsive_ips)) = 2
    /\ sres.kind = "pair"
    /\ sres.val[1][1] = responsive_ips[1]
    /\ responsive_ips[1] > responsive_ips[2]

\* every ping of the sweep has ended and none was answered
NoneAnswered ==
    \A h \in Hosts : ping[h].st \in {"finished", "yielded"} /\ ~Answered(h)

\* C14: when no host answers the sweep, the scan opens no instrument session
\* (no probe is made) and, once the last future is collected, has returned
\* the empty result without raising: [] from find_dp832_devices, None from
\* find_first_dp832 and from the script's find_dp832.
C14_NothingAnswers ==
    NoneAnswered =>
        /\ probes = <<>>
        /\ session = {}
        /\ spc \in {"submit", "collect", "done"}
        /\ HostsIn("yielded") = Hosts =>
               /\ spc = "done"
               /\ sres.kind = IF call.entry = "find_dp832_devices" THEN "list" ELSE "None"
               /\ sres.val = <<>>
               /\ sres.err = "none"

\* the script's find_dp832 returned None after a sweep nobody answered
C14_Witness ==
    /\ ScanDone("find_dp832")
    /\ NoneAnswered
    /\ sres.kind = "None"

\* the hosts probed so far, in the order probed
Probed == [k \in DOMAIN probes |-> probes[k].host]

\* C15: the identification phase of a scan has at most one probe in flight,
\* probes the reachable hosts in the order the sweep collected them, and the
\* matches it has found, and those find_dp832_devices returns, keep that
\* relative order.
C15_ProbesInSweepOrder ==
    call.entry \in ScanEntries =>
        /\ Cardinality(session) <= 1
        /\ IsPrefix(Probed, responsive_ips)
        /\ \A h \in session : spc = "query" /\ h = responsive_ips[Len(probes) + 1]
        /\ call.entry # "find_dp832" => dp832_devices = FullScanList(Probed)
        /\ ScanDone("find_dp832_devices") =>
               /\ Probed = responsive_ips
               /\ sres.val = FullScanList(responsive_ips)

\* the sweep collected host 3 before host 1, both were probed in that order
\* and both are in the list returned, host 3 first
C15_Witness ==
    /\ ScanDone("find_dp832_devices")
    /\ responsive_ips = <<3, 1>>
    /\ Probed = <<3, 1>>
    /\ Len(sres.val) = 2
    /\ sres.val[1][1] = 3
    /\ sres.val[2][1] = 1

\* the identification replies that hold RIGOL and one of DP832, DP821, DP712,
\* in either case
AcceptedReplies == {R_idn, R_idn_cr, R_idn_lower, R_idn_821, R_idn_712}

\* the probe got a reply, and the reply is one of a RIGOL DP832, DP821 or DP712
Accepted(p) == p.out = "reply" /\ p.reply \in AcceptedReplies

\* C16: whichever entry point made it, a probe classifies its host as a match
\* exactly when it got a reply holding, in any case, RIGOL and one of DP832,
\* DP821, DP712: a scan lists the hosts of exactly those probes, and test_ip
\* returns the identification for exactly those.
C16_OneMatchRule ==
    /\ call.entry \in {"find_dp832_devices", "find_first_dp832"} =>
           \A k \in DOMAIN probes :
               Accepted(probes[k])
                   <=> \E j \in DOMAIN dp832_devices :
                           dp832_devices[j][1] = probes[k].host
    /\ (spc = "done" /\ call.entry \in TestEntries /\ probes # <<>>) =>
           (Accepted(probes[1]) <=> sres.kind = "text")

\* the hosts in a list of (host, identification) pairs
HostsOf(devices) == {devices[k][1] : k \in DOMAIN devices}

\* the hosts whose probe failed: no session, or no reply to the query
FailedProbes == {probes[k].host : k \in {n \in DOMAIN probes : probes[n].out # "reply"}}

\* C17: a scan by find_dp832_devices or find_first_dp832 never raises and
\* never ends early, whatever pings and probes fail: when it returns, every
\* host has been pinged and its future collected, every host that answered
\* has been probed, and the hosts whose ping or probe failed are not in the
\* result.
C17_FailuresOnlyExclude ==
    call.entry \in {"find_dp832_devices", "find_first_dp832"} =>
        /\ sres.kind # "raise"
        /\ \A h \in Hosts : ~Answered(h) => \A k \in DOMAIN responsive_ips : responsive_ips[k] # h
        /\ HostsOf(dp832_devices) \cap FailedProbes = {}
        /\ spc = "done" =>
               /\ \A h \in Hosts : ping[h].st = "yielded" /\ ping[h].how \in PingBehaviours
               /\ {responsive_ips[k] : k \in DOMAIN responsive_ips}
                      = {h \in Hosts : Answered(h)}
               /\ Probed = responsive_ips
               /\ HostsOf(sres.val) \subseteq HostsOf(dp832_devices)

\* host 1's ping could not be started; hosts 2 and 3 answered, and host 3
\* identified after the probe of host 2 had timed out
C17_Witness ==
    /\ ScanDone("find_dp832_devices")
    /\ ping[1].how = "oserror"
    /\ Answered(2)
    /\ Answered(3)
    /\ probes[1] = [host |-> 2, out |-> "timeout", reply |-> <<>>]
    /\ probes[2] = [host |-> 3, out |-> "reply", reply |-> R_idn]
    /\ sres.val = <<<<3, R_idn>>>>

\* a call of either test_ip has returned or raised
TestIpDone == spc = "done" /\ call.entry \in TestEntries

\* what either test_ip returns: the identification when the probe got a
\* DP832's reply, None when it got no reply or one of no RIGOL DP832, DP821
\* or DP712
TestIpReturns ==
    \A k \in DOMAIN probes :
        /\ k \in TargetProbes(call.addr) =>
               sres.kind = "text" /\ sres.val = <<IdnText(probes[k].reply)>>
        /\ ~Accepted(probes[k]) => sres.kind = "None" /\ sres.val = <<>>

\* C18 as stated: test_ip returns the identification of a target model and
\* None otherwise, and raises only for a malformed address.
C18_RaisesOnlyForMalformed ==
    TestIpDone =>
        /\ TestIpReturns
        /\ sres.kind = "raise" => ~Wellformed(call.addr)

\* C18, amended: test_ip returns the identification of a target model and
\* None otherwise; it makes exactly one probe and never raises for what the
\* probe meets, a malformed address included, which gives None; the one
\* exception it raises is test_ip.py's ImportError, raised before any probe
\* when pyvisa is not installed.
C18_TestIpNeverRaisesNotFound ==
    TestIpDone =>
        /\ TestIpReturns
        /\ sres.kind = "raise" <=> (call.entry = "test_ip.py" /\ ~call.visa)
        /\ sres.kind = "raise" => sres.err = "ImportError" /\ probes = <<>>
        /\ sres.kind # "raise" => Len(probes) = 1 /\ probes[1].host = call.addr
        /\ (sres.kind # "raise" /\ ~Wellformed(call.addr)) => sres.kind = "None"

\* discovery.py's test_ip was given a text that is no address and returned
\* None
C18_Witness ==
    /\ ScanDone("test_ip")
    /\ call.addr = Malformed
    /\ probes = <<[host |-> Malformed, out |-> "open_error", reply |-> <<>>]>>
    /\ sres.kind = "None"

\* a step of a worker thread: it takes a task or ends one
WorkerStep ==
    \E h \in Hosts :
        /\ ping'[h].st # ping[h].st
        /\ ping'[h].st \in {"running", "finished"}

\* a turn of the as_completed loop in the calling thread
CollectorStep ==
    /\ spc = "collect"
    /\ \E h \in Hosts : ping[h].st = "finished" /\ ping'[h].st = "yielded"

\* C19: during the sweep the pings in flight never outnumber the pool's
\* max_workers (50 in the source), and responsive_ips changes only in a turn
\* of the as_completed loop, which the calling thread runs: no step of a
\* worker changes it.
C19_PoolCapAndCollector ==
    /\ [](Cardinality(Running) <= max_workers)
    /\ [][responsive_ips' # responsive_ips => CollectorStep]_vars
    /\ [][WorkerStep => responsive_ips' = responsive_ips]_vars

\* every worker of the pool is in a ping while a submitted task waits
C19_Witness ==
    /\ Cardinality(Running) = max_workers
    /\ HostsIn("queued") # {}

\* the as_completed loop has ended: the sweep is over
Swept == spc \in {"probe", "query", "done"}

\* C20: a sweep that was started completes; every task submitted gets a
\* worker and ends, also behind pings that hang, and a host whose ping hung
\* (or failed otherwise) ends up unreachable: its future is False and it is
\* never among the responders.
C20_SweepCompletes ==
    /\ (spc = "submit") ~> Swept
    /\ \A h \in Hosts :
           (ping[h].st = "queued") ~> (ping[h].st \in {"finished", "yielded"})
    /\ [](Swept => HostsIn("yielded") = Hosts)
    /\ [](\A h \in Hosts :
             (ping[h].st \in {"finished", "yielded"} /\ ping[h].how # "reply") =>
                 /\ ~ping[h].val
                 /\ \A k \in DOMAIN responsive_ips : responsive_ips[k] # h)

\* the pings of hosts 1 and 2 took both workers and hung; host 3 was pinged
\* after them, answered, and the sweep ended with host 3 as the one responder
C20_Witness ==
    /\ Swept
    /\ ping[1].how = "hung"
    /\ ping[2].how = "hung"
    /\ Answered(3)
    /\ responsive_ips = <<3>>

C22_DisconnectReleases ==
    tres.tool = "disconnect" =>
        /\ current_ps = None
        /\ tres.had = None => tres.val = "No active connection to disconnect"

\* C23: a connect given no address, with none in the environment, whose
\* auto-discovery found nothing or failed, returns status "failed" with the
\* configuration message, opened no session, sent nothing, and ran
\* discovery once; one that failed before discovery ran no discovery.
C23_NoAddressFails ==
    (tres.tool = "connect" /\ tres.arg = None /\ DEFAULT_IP = None) =>
        /\ tres.found \in {"none", "error"} =>
              /\ tres.kind = "returned"
              /\ tres.status = "failed"
              /\ tres.err = "No IP address configured"
              /\ tres.opened = 0
              /\ tres.sent = 0
              /\ tres.runs = 1
        /\ tres.found = "" =>
              /\ tres.status = "failed"
              /\ tres.opened = 0
              /\ tres.runs = 0

\* a connect without address was made while connected, and discovery raised
C23_Witness ==
    /\ tres.tool = "connect"
    /\ tres.arg = None
    /\ DEFAULT_IP = None
    /\ tres.found = "error"
    /\ tres.had # None
    /\ tres.status = "failed"

\* C24: an adapter tool called while a session is connected returns an
\* object and does not raise.
C24_ConnectedToolsNeverRaise ==
    (tres.tool # "none" /\ tres.had # None) => tres.kind = "returned"

\* C25: when the current-session handle is set, the session it refers to
\* is open.
C25_CurrentSessionOpen ==
    current_ps # None => sess[current_ps] = "open"

\* C26: a session the adapter created is open only while it is the current
\* one, so at most one of them is open.
C26_OneOpenSession ==
    /\ \A i \in DOMAIN sess : sess[i] = "open" => current_ps = i
    /\ Cardinality({i \in DOMAIN sess : sess[i] = "open"}) <= 1

\* a connect made while connected opened a second session
C26_Witness ==
    /\ tres.tool = "connect"
    /\ tres.had # None
    /\ tres.opened = 1
    /\ Len(sess) >= 2
    /\ current_ps = Len(sess)
    /\ sess[tres.had] = "closed"

(***************************************************************************)
(* Resources                                                               *)
(***************************************************************************)
\* C27: when an identification probe has returned, the session and the
\* resource manager it opened are closed: outside the identification query
\* no probe's handle is open.
C27_ProbeReleases ==
    spc # "query" => handles = {}

\* C28: when the constructor of a client has raised, neither the resource
\* manager nor a session it created is open.
C28_FailedConstructionReleases ==
    life = "failed" => ~rmOpen /\ ~instOpen

(***************************************************************************)
(* The two discovery implementations                                       *)
(***************************************************************************)
\* the first element of a list of (address, identification) pairs, or None
HeadOrNone(full) ==
    IF full = <<>> THEN [kind |-> "None", val |-> <<>>, err |-> "none"]
    ELSE [kind |-> "pair", val |-> <<full[1]>>, err |-> "none"]

\* the hosts probed so far that gave a DP832's reply
MatchedSoFar == {k \in DOMAIN probes : TargetProbes(probes[k].host) # {}}

\* C29: find_dp832() of find_dp832.py and find_first_dp832() of discovery.py
\* return the same value for the same ping outcomes, completion order and
\* identification replies: each returns the first (address, identification)
\* pair of the list a full scan gives for them, or None when that list is
\* empty; find_dp832 stops probing at its first match, find_first_dp832
\* probes every host that answered.
C29_TakeFirstAgree ==
    /\ \A e \in {"find_dp832", "find_first_dp832"} :
           ScanDone(e) => sres = HeadOrNone(FullScanList(responsive_ips))
    /\ (ScanDone("find_dp832") /\ sres.kind = "pair") =>
           MatchedSoFar = {Len(probes)}
    /\ (ScanDone("find_first_dp832") \/ (ScanDone("find_dp832") /\ sres.kind = "None")) =>
           Len(probes) = Len(responsive_ips)

\* find_dp832 passed over a DP821, returned the DP832 it met next and left
\* the last reachable host unprobed
C29_Witness ==
    /\ ScanDone("find_dp832")
    /\ sres.kind = "pair"
    /\ Len(probes) = 2
    /\ probes[1].reply = R_idn_821
    /\ Len(responsive_ips) = 3
    /\ sres.val[1][1] = responsive_ips[2]

\* find_first_dp832 returned the same host after probing all three
C29_WitnessFull ==
    /\ ScanDone("find_first_dp832")
    /\ sres.kind = "pair"
    /\ Len(probes) = 3
    /\ probes[1].reply = R_idn_821
    /\ sres.val[1][1] = responsive_ips[2]

(***************************************************************************)
(* Frame of the read and the set operations                                *)
(***************************************************************************)
\* identify and the get_* and measure_* operations of one channel
ReadNames ==
    {"id", "get_output_state", "get_channel_settings", "measure_voltage",
     "measure_current", "measure_power", "measure_all", "get_output_mode",
     "get_ocp_enabled", "get_ocp_value", "get_ovp_enabled", "get_ovp_value",
     "get_ocp_alarm", "get_ovp_alarm"}

\* the set_* and clear_* operations
SetNames ==
    {"set_output_state", "set_channel_settings", "set_ocp_enabled",
     "set_ocp_value", "set_ovp_enabled", "set_ovp_value", "clear_ocp_alarm",
     "clear_ovp_alarm"}

\* the command forms that end in '?'
QuestionForms ==
    {"*IDN?", ":OUTP:STAT?", ":APPL?", ":MEAS?", ":MEAS:CURR?", ":MEAS:ALL?",
     ":OUTP:MODE?", ":OUTP:OCP?", ":OUTP:OCP:VAL?", ":OUTP:OVP?",
     ":OUTP:OVP:VAL?", ":OUTP:OCP:ALAR?", ":OUTP:OVP:ALAR?"}

\* the instrument's state for every channel but ch is the same after the step
OthersUntouched(ch) ==
    \A other \in ValidChannels \ {ch} :
        /\ instr'.appl[other] = instr.appl[other]
        /\ instr'.stat[other] = instr.stat[other]
        /\ programmed'[other] = programmed[other]

\* every read operation is a query whose command ends in '?', every set or
\* clear operation a write whose command does not
ReadsAskSetsTell ==
    \A o \in Ops :
        /\ o.name \in ReadNames \cup SetNames
        /\ o.name \in ReadNames => o.kind = "query" /\ o.verb \in QuestionForms
        /\ o.name \in SetNames => o.kind = "write" /\ o.verb \notin QuestionForms

\* a step in which caller c's inst.query writes its command
AsksStep(c) == pc[c] = "idle" /\ pc'[c] = "reading"

\* what a step of the client does to the instrument, by the operation whose
\* query it sends or whose outcome it ends with
FrameStep ==
    /\ \A c \in Callers :
           AsksStep(c) =>
               /\ cur'[c].op \in ReadNames
               /\ Command(OpNamed(cur'[c].op), cur'[c].ch, NoArg).ch = cur'[c].ch
               /\ inflight' = inflight + 1
               /\ instr' = instr /\ programmed' = programmed
    /\ res'.op \in ReadNames =>
           /\ res'.calls <= 1
           /\ instr' = instr /\ programmed' = programmed
    /\ res'.op \in SetNames =>
           /\ res'.calls <= 1
           /\ res'.io = "ok" <=> res'.err = "none"
           /\ res'.io = "ok" => res'.calls = 1
           /\ pc' = pc /\ inflight' = inflight
           /\ ~res'.replied
           /\ OthersUntouched(res'.ch)
    /\ (instr' # instr \/ programmed' # programmed) =>
           res'.op \in SetNames /\ res'.io = "ok"

\* C30: identify and every get_* and measure_* operation hands the transport
\* one query command (ending in '?') for the requested channel and leaves
\* the instrument's programmed state as it was; every set_* and clear_*
\* operation hands it at most one command, none ending in '?', waits for no
\* reply, and changes nothing for any channel but the requested one; the
\* programmed state changes in no other step.
C30_ReadsFrameSetsOneChannel == ReadsAskSetsTell /\ [][FrameStep]_vars

\* channel 2 was programmed and then channel 1 read back: channel 2 holds
\* the new values, channel 1 still the initial ones
C30_Witness ==
    /\ res.op = "get_channel_settings"
    /\ res.ch = 1
    /\ res.replied
    /\ programmed[2] # NoArg
    /\ instr.appl[2] # InstrumentInit.appl[2]
    /\ instr.appl[1] = InstrumentInit.appl[1]
    /\ instr.appl[3] = InstrumentInit.appl[3]

====
